---- MODULE Spec2Model ----
(***************************************************************************)
(* Device-side FDO onboarding (go-fdo-client, package cmd): the doOnboard  *)
(* run, the transferOwnership retry orchestrator, getOwnerURLs (TO1        *)
(* discovery or rendezvous bypass), applyDelay and addJitter; the command  *)
(* around it (PreRunE, validate, the TPM handles and their deferred        *)
(* release), moveFile / copyAndRemove, the service info modules of         *)
(* initializeFSIMs, WorkingDirFS and the in-memory test Transport.Send.    *)
(*                                                                         *)
(* fdo.TO1, fdo.TO2, protocol.ParseDeviceRvInfo, the DNS resolver and the  *)
(* run's context belong to the environment: their results are chosen       *)
(* nondeterministically from the outcomes their signatures allow.          *)
(* Durations are counted in seconds.                                       *)
(***************************************************************************)
EXTENDS Integers, Sequences, FiniteSets, TLC

(***************************************************************************)
(* Bounds of the model                                                     *)
(***************************************************************************)
MaxDirectives == 2      \* directives in the parsed rendezvous information
JitterSteps == 4        \* resolution of rand.Float64(): k/JitterSteps, k < JitterSteps

(***************************************************************************)
(* Values                                                                  *)
(***************************************************************************)
NilStr == "nil"                       \* a nil pointer / nil error
NilCred == NilStr                     \* (*fdo.DeviceCredential)(nil)
NoErr == NilStr                       \* error(nil)
ErrNoRvInfo == "no rendezvous information found that's usable for the device"
ErrCanceled == "context canceled"     \* ctx.Err() after cancellation
ErrReadCred == "error reading blob credential"
ErrUpdateCred == "error saving blob credential"

LoadedCred == "dc0"                   \* the credential in the store at start
NewCreds == {"dc1", "dc2"}            \* replacement credentials an owner may issue

DefaultDelay == 120                   \* 120 * time.Second
DirectiveDelays == {0, 8}             \* RVDelaysec values of the directives
RetryDelays == {0, 5}                 \* --to2-retry-delay values

\* Rendezvous URLs of a directive (*url.URL values)
RvURL1 == [Scheme |-> "http", Host |-> "rv1.example:8041"]
RvURL2 == [Scheme |-> "https", Host |-> "rv2.example"]
URLLists == {<<>>, <<RvURL1, RvURL2>>}

\* url.URL.String() for a URL made of a scheme and a host
URLString(u) == u.Scheme \o "://" \o u.Host

\* protocol.RvDirective
DirectiveSet == [URLs : URLLists, Delay : DirectiveDelays, Bypass : BOOLEAN]
DirectiveLists == UNION {[1..n -> DirectiveSet] : n \in 0..MaxDirectives}

(***************************************************************************)
(* TO1 statements: to1d.Payload.Val.RV is a list of protocol.RvTO2Addr     *)
(***************************************************************************)
HTTPTransport == "HTTP"
HTTPSTransport == "HTTPS"
TCPTransport == "TCP"

ResolvableNames == {"owner.example"}             \* names net.LookupHost resolves
ValidIPs == {"10.0.0.2", "fd00::2"}              \* strings net.ParseIP accepts
ColonHosts == {"fd00::2"}                        \* hosts containing ':'

Addr(dns, ip, port, proto) ==
    [DNSAddress |-> dns, IPAddress |-> ip, Port |-> port, TransportProtocol |-> proto]

AddrDNS == Addr("owner.example", NilStr, 0, HTTPTransport)
AddrBoth == Addr("owner.example", "10.0.0.2", 8043, HTTPSTransport)
AddrIP6 == Addr(NilStr, "fd00::2", 0, HTTPSTransport)
AddrNone == Addr(NilStr, NilStr, 0, HTTPTransport)
AddrTCP == Addr("owner.example", "10.0.0.2", 0, TCPTransport)
AddrBad == Addr("gone.example", "?0a00", 0, HTTPTransport)

NilTo1d == [IsNil |-> TRUE, RV |-> <<>>]
To1d(rv) == [IsNil |-> FALSE, RV |-> rv]
Statements ==
    { To1d(<<AddrDNS>>),
      To1d(<<AddrBoth>>),
      To1d(<<AddrIP6, AddrDNS>>),
      To1d(<<AddrNone, AddrTCP, AddrBad>>) }

isValidIP(ip) == ip \in ValidIPs
isResolvableDNS(dns) == dns \in ResolvableNames

Digit(n) == CASE n = 0 -> "0" [] n = 1 -> "1" [] n = 2 -> "2" [] n = 3 -> "3"
              [] n = 4 -> "4" [] n = 5 -> "5" [] n = 6 -> "6" [] n = 7 -> "7"
              [] n = 8 -> "8" [] n = 9 -> "9"

RECURSIVE Itoa(_)
Itoa(n) == IF n < 10 THEN Digit(n) ELSE Itoa(n \div 10) \o Digit(n % 10)

JoinHostPort(host, port) ==
    IF host \in ColonHosts THEN "[" \o host \o "]:" \o port ELSE host \o ":" \o port

\* lines 290-308 with the IP address handled before the DNS name
AddrURLsIPFirst(a) ==
    IF a.DNSAddress = NilStr /\ a.IPAddress = NilStr THEN <<>>
    ELSE IF a.TransportProtocol \notin {HTTPTransport, HTTPSTransport} THEN <<>>
    ELSE LET scheme == IF a.TransportProtocol = HTTPTransport THEN "http://" ELSE "https://"
             defPort == IF a.TransportProtocol = HTTPTransport THEN "80" ELSE "443"
             port == IF a.Port # 0 THEN Itoa(a.Port) ELSE defPort
             dnsURL == IF a.DNSAddress # NilStr /\ isResolvableDNS(a.DNSAddress)
                       THEN <<scheme \o JoinHostPort(a.DNSAddress, port)>> ELSE <<>>
             ipURL == IF a.IPAddress # NilStr /\ isValidIP(a.IPAddress)
                      THEN <<scheme \o JoinHostPort(a.IPAddress, port)>> ELSE <<>>
         IN ipURL \o dnsURL

\* The owner URLs one RvTO2Addr contributes (getOwnerURLs, body of the
\* expansion loop)
AddrURLs(a) ==
    IF a.DNSAddress = NilStr /\ a.IPAddress = NilStr THEN <<>>
    ELSE IF a.TransportProtocol \notin {HTTPTransport, HTTPSTransport} THEN <<>>
    ELSE LET scheme == IF a.TransportProtocol = HTTPTransport THEN "http://" ELSE "https://"
             defPort == IF a.TransportProtocol = HTTPTransport THEN "80" ELSE "443"
             port == IF a.Port # 0 THEN Itoa(a.Port) ELSE defPort
             dnsURL == IF a.DNSAddress # NilStr /\ isResolvableDNS(a.DNSAddress)
                       THEN <<scheme \o JoinHostPort(a.DNSAddress, port)>> ELSE <<>>
             ipURL == IF a.IPAddress # NilStr /\ isValidIP(a.IPAddress)
                      THEN <<scheme \o JoinHostPort(a.IPAddress, port)>> ELSE <<>>
         IN dnsURL \o ipURL

RECURSIVE ExpandTo2Addrs(_)
ExpandTo2Addrs(rv) ==
    IF rv = <<>> THEN <<>> ELSE AddrURLs(Head(rv)) \o ExpandTo2Addrs(Tail(rv))

RECURSIVE URLStrings(_)
URLStrings(urls) ==
    IF urls = <<>> THEN <<>> ELSE <<URLString(Head(urls))>> \o URLStrings(Tail(urls))

(***************************************************************************)
(* addJitter: delay + trunc(delay * 0.25 * (2*r - 1)), r = k/JitterSteps   *)
(***************************************************************************)
TruncDiv(a, b) == IF a >= 0 THEN a \div b ELSE -((-a) \div b)
\* a jitter factor drawn from [-0.5, +0.5)
addJitterHalf(delay, k) == delay + TruncDiv(delay * (2*k - JitterSteps), 2*JitterSteps)

addJitter(delay, k) == delay + TruncDiv(delay * (2 * k - JitterSteps), 4 * JitterSteps)
JitterChoices == 0..(JitterSteps - 1)

(***************************************************************************)
(* The credential store                                                    *)
(***************************************************************************)
FDO_STATE_PRE_DI == "PRE_DI"
FDO_STATE_PRE_TO1 == "PRE_TO1"
FDO_STATE_IDLE == "IDLE"
FDO_STATE_RESALE == "RESALE"
FDO_STATE_ERROR == "ERROR"
DeviceStates == {FDO_STATE_PRE_DI, FDO_STATE_PRE_TO1, FDO_STATE_IDLE,
                 FDO_STATE_RESALE, FDO_STATE_ERROR}

ErrLoadStatus == "load device status failed"
ErrNotInitialized == "device has not been properly initialized"
ErrInvalidState == "device state is invalid"

\* the GUID field of a protocol credential
GUID(dc) ==
    CASE dc = "dc0" -> "guid0"
      [] dc = "dc1" -> "guid1"
      [] dc = "dc2" -> "guid2"
      [] OTHER -> NilStr

\* blob.DeviceCredential: the protocol credential and the store's own secrets
StoredRecord(dc, state) ==
    [DeviceCredential |-> dc, HmacSecret |-> "secret0", PrivateKey |-> "key0",
     State |-> state]

\* a file holding no or only a part of an encoding: it does not decode
Partial ==
    [DeviceCredential |-> NilCred, HmacSecret |-> NilStr, PrivateKey |-> NilStr,
     State |-> NilStr]

\* no file at a path
NoFile ==
    [DeviceCredential |-> "absent", HmacSecret |-> "absent", PrivateKey |-> "absent",
     State |-> "absent"]

(***************************************************************************)
(* Rendezvous instructions and the directive parser                        *)
(***************************************************************************)
RvNames == {"rv1.example", "rv2.example"}      \* the DNS names of the instructions

\* url.URL.Hostname(): the host without its port
Hostname(u) == IF u.Host = "rv1.example:8041" THEN "rv1.example" ELSE u.Host

\* protocol.ParseDeviceRvInfo: the URL of a DNS name is included only if the
\* name resolves when the instructions are parsed
ParseDeviceRvInfo(rv, up) ==
    [k \in 1..Len(rv) |->
        [rv[k] EXCEPT !.URLs = SelectSeq(@, LAMBDA u : Hostname(u) \in up)]]

(***************************************************************************)
(* Configuration of the onboard command                                    *)
(***************************************************************************)

\* paths of the file system the command runs on
AbsPaths == {"/var/lib/fdo", "/missing", "/readonly", "/dl"}   \* filepath.IsAbs
ExistingPaths == {"/var/lib/fdo", "/readonly", "/dl"}          \* os.Stat succeeds
WritableDirs == {"/var/lib/fdo", "/dl"}                        \* os.CreateTemp succeeds

validCipherSuites ==
    {"A128GCM", "A192GCM", "A256GCM", "AES-CCM-64-128-128", "AES-CCM-64-128-256",
     "COSEAES128CBC", "COSEAES128CTR", "COSEAES256CBC", "COSEAES256CTR"}
validKexSuites ==
    {"DHKEXid14", "DHKEXid15", "ASYMKEX2048", "ASYMKEX3072", "ECDH256", "ECDH384"}

isValidPath(path) == path # ""
fileExists(path) == path \in ExistingPaths

\* a configuration validate accepts: the defaults of the flags, with the
\* required --key and --kex given
ValidConfig ==
    [TPM |-> "", Key |-> "ec256", DefaultWorkingDir |-> "/var/lib/fdo",
     Kex |-> "ECDH256", Cipher |-> "A128GCM", Download |-> "",
     MaxServiceInfoSize |-> 1300, WgetDir |-> ""]

(***************************************************************************)
(* State                                                                   *)
(***************************************************************************)
VARIABLES
    directives,        \* protocol.ParseDeviceRvInfo(dc.RvInfo)
    to2RetryDelay,     \* onboardConfig.Onboard.TO2RetryDelay
    store,             \* the credential store (blob file)
    cancelled,         \* clientContext is done
    pc,                \* position of the run
    i,                 \* index of the directive being processed (1-based)
    r,                 \* index of the rendezvous URL being tried (1-based)
    j,                 \* index of the owner URL being tried (1-based)
    ownerURLs,         \* ownerURLs returned by getOwnerURLs
    to1d,              \* to1d returned by getOwnerURLs
    startedCancelled,  \* the context was already done when the call in flight began
    result,            \* what transferOwnership returned
    runErr,            \* what doOnboard returned
    log,               \* events of the directive being processed
    updCalls,          \* calls of updateCred in this run
    writes,            \* successful writes of the store in this run
    reads,             \* reads of the store in this run
    blobKind,          \* what blobPath is: a regular file or a symbolic link
    target,            \* content of the file a symbolic link at blobPath points to
    tmp,               \* content of the temporary file of saveCred
    resale,            \* onboardConfig.Onboard.Resale
    deviceStatus,      \* deviceStatus of onboardCmd.RunE
    jitterIn,          \* argument of addJitter
    jitterOut,         \* value returned by addJitter
    rvInfo,            \* dc.RvInfo, the rendezvous instructions of the credential
    dns,               \* the names the resolver resolves at this moment
    healed,            \* the directive whose TO1 and TO2 attempts succeed from now on, or 0
    config,            \* rootConfig and onboardConfig, as the flags and the file set them
    handles,           \* the open TPM handles
    defers,            \* the handles a deferred call of the run closes
    mv,                \* the files and the position of a moveFile call
    tr,                \* a fdotest.Transport and its Send call
    call,              \* a call of a function of the service info modules
    vo                 \* vouchers, the arrays of their entries, and the calls made on them

vars == <<directives, to2RetryDelay, store, cancelled, pc, i, r, j, ownerURLs,
          to1d, startedCancelled, result, runErr, log, updCalls, writes, reads,
          blobKind, target, tmp, resale, deviceStatus, jitterIn, jitterOut,
          rvInfo, dns, healed, config, handles, defers, mv, tr, call, vo>>

fsVars == <<blobKind, target, tmp>>
pureVars == <<jitterIn, jitterOut, mv, tr, call, vo>>
envVars == <<rvInfo, dns, healed>>
cmdVars == <<config, handles, defers>>
others == <<reads, fsVars, resale, deviceStatus, envVars, cmdVars, pureVars>>
runVars == <<directives, to2RetryDelay, store, cancelled, i, r, j, ownerURLs, to1d,
             startedCancelled, result, runErr, log, updCalls, writes, reads, fsVars,
             resale, deviceStatus, envVars, cmdVars>>

conf == <<directives, to2RetryDelay>>

NoResult == [cred |-> NilCred, err |-> "not returned"]
NotReturned == "not returned"

Ev(kind, idx, url, stmt, dur, res) ==
    [kind |-> kind, idx |-> idx, url |-> url, to1d |-> stmt, dur |-> dur, res |-> res]

Last(s) == s[Len(s)]
SetLastRes(lg, res) == [lg EXCEPT ![Len(lg)].res = res]

\* the variables of one run of the command, when it starts
RunStart ==
    /\ cancelled = FALSE
    /\ pc = "RunE"
    /\ i = 1 /\ r = 1 /\ j = 1
    /\ ownerURLs = <<>>
    /\ to1d = NilTo1d
    /\ startedCancelled = FALSE
    /\ result = NoResult
    /\ runErr = NotReturned
    /\ log = <<>>
    /\ updCalls = 0
    /\ writes = 0
    /\ reads = 0
    /\ tmp = NoFile
    /\ deviceStatus = NilStr

\* the command has passed PreRunE with a valid configuration and no TPM, and
\* no directive is singled out
CmdStart == healed = 0 /\ config = ValidConfig /\ handles = {} /\ defers = {}

\* no call
Idle == [op |-> "none"]

\* no function is being applied on its own
Parked ==
    jitterIn = 0 /\ jitterOut = 0 /\ mv = Idle /\ tr = Idle /\ call = Idle /\ vo = Idle

Init ==
    /\ rvInfo \in DirectiveLists
    /\ directives = <<>>
    /\ dns = RvNames
    /\ CmdStart
    /\ to2RetryDelay \in RetryDelays
    /\ store = StoredRecord(LoadedCred, FDO_STATE_PRE_TO1)
    /\ blobKind = "file"
    /\ target = NoFile
    /\ resale = FALSE
    /\ RunStart
    /\ Parked

(***************************************************************************)
(* The environment cancels the run's context.                              *)
(***************************************************************************)
Cancel ==
    /\ ~cancelled
    /\ pc # "done"
    /\ cancelled' = TRUE
    /\ UNCHANGED <<directives, to2RetryDelay, store, pc, i, r, j, ownerURLs, to1d,
                   startedCancelled, result, runErr, log, updCalls, writes>>
    /\ UNCHANGED others

(***************************************************************************)
(* onboardCmd.RunE                                                         *)
(***************************************************************************)
\* the lifecycle marker of the stored credential
loadDeviceStatus == store.State

\* line 106 starting the onboarding from IDLE without a resale request
ShouldOnboardFromIdle(status, rs) == status \in {FDO_STATE_PRE_TO1, FDO_STATE_IDLE}

\* line 106
ShouldOnboard(status, rs) ==
    status = FDO_STATE_PRE_TO1 \/ (status = FDO_STATE_IDLE /\ rs)

\* lines 108-115 returning nil for every status
RunEReturnNil(status) == NoErr

\* lines 108-115: what RunE returns without onboarding
RunEReturn(status) ==
    IF status = FDO_STATE_IDLE THEN NoErr
    ELSE IF status = FDO_STATE_PRE_DI THEN ErrNotInitialized
    ELSE ErrInvalidState

RunE ==
    /\ pc = "RunE"
    /\ \E tpmOK \in BOOLEAN :
         IF config.TPM # "" /\ tpmOK
         THEN handles' = handles \cup {"tpmc"} /\ defers' = defers \cup {"tpmc"}
         ELSE UNCHANGED <<handles, defers>>
    /\ \E ok \in BOOLEAN :
         IF config.TPM # "" /\ handles' = handles
         THEN pc' = "done" /\ runErr' = "failed to open TPM device" /\ deviceStatus' = deviceStatus
         ELSE IF ~ok
         THEN pc' = "done" /\ runErr' = ErrLoadStatus /\ deviceStatus' = deviceStatus
         ELSE /\ deviceStatus' = loadDeviceStatus
              /\ IF ShouldOnboard(deviceStatus', resale)
                 THEN pc' = "doOnboard" /\ runErr' = runErr
                 ELSE pc' = "done" /\ runErr' = RunEReturn(deviceStatus')
    /\ UNCHANGED <<directives, to2RetryDelay, store, cancelled, i, r, j, ownerURLs,
                   to1d, startedCancelled, result, log, updCalls, writes>>
    /\ UNCHANGED <<reads, fsVars, resale, envVars, config, pureVars>>

(***************************************************************************)
(* doOnboard, up to the call of transferOwnership                          *)
(***************************************************************************)
\* tpmCred: the handles it leaves open, those it closes and those its
\* cleanup function closes, having acquired the handles of the first
\* argument and then failed or not
tpmCred(acquired, failed) ==
    IF failed THEN [open |-> acquired, closed |-> {"tpmc"}, cleanup |-> {}]
    ELSE [open |-> acquired, closed |-> {}, cleanup |-> acquired]

ReadCred ==
    /\ pc = "doOnboard"
    /\ \E ok \in BOOLEAN :
         IF ok THEN pc' = "transferOwnership" /\ runErr' = runErr
               ELSE pc' = "done" /\ runErr' = IF config.TPM # "" THEN "error reading TPM credential"
                                                ELSE ErrReadCred
    /\ IF config.TPM = "" THEN UNCHANGED <<handles, defers>>
       ELSE IF pc' = "transferOwnership"
       THEN LET t == tpmCred({"h256", "h384", "key"}, FALSE)
            IN handles' = handles \cup t.open /\ defers' = defers \cup t.cleanup
       ELSE \E acquired \in {{}, {"h256"}, {"h256", "h384"}}, inTpmCred \in BOOLEAN :
              \* readTpmCred failed, the di-key flag was not set, or the
              \* acquisition of the next handle failed
              /\ acquired # {} => inTpmCred
              /\ LET t == tpmCred(acquired, TRUE)
                 IN handles' = IF inTpmCred THEN (handles \cup t.open) \ t.closed
                               ELSE handles
              /\ defers' = defers
    /\ UNCHANGED <<directives, to2RetryDelay, store, cancelled, i, r, j, ownerURLs,
                   to1d, startedCancelled, result, log, updCalls, writes>>
    /\ reads' = reads + 1
    /\ UNCHANGED <<fsVars, resale, deviceStatus, envVars, config, pureVars>>

(***************************************************************************)
(* transferOwnership                                                       *)
(***************************************************************************)
\* the directive loop restarting from the first directive after every directive
NextDirectiveFirst(n) == 1

NextDirective(n) == IF n = Len(directives) THEN 1 ELSE n + 1

\* lines 356-370 without the default delay of the last directive
DelayKindNoDefault(d, isLastDirective) ==
    IF d.Delay # 0 THEN "wait-directive" ELSE "none"

\* lines 356-370 with the two tests in the opposite order
DelayKindLastFirst(d, isLastDirective) ==
    IF isLastDirective THEN "wait-default"
    ELSE IF d.Delay # 0 THEN "wait-directive"
    ELSE "none"

\* which wait follows a directive: lines 356-370
DelayKind(d, isLastDirective) ==
    IF d.Delay # 0 THEN "wait-directive"
    ELSE IF isLastDirective THEN "wait-default"
    ELSE "none"

DelayBase(d, kind) == IF kind = "wait-directive" THEN d.Delay ELSE DefaultDelay

\* Step 3 of the directive loop; lg is the log so far
DirectiveDelay(lg) ==
    LET d == directives[i]
        kind == DelayKind(d, i = Len(directives))
    IN IF kind = "none"
       THEN /\ pc' = "directive"
            /\ i' = NextDirective(i)
            /\ log' = lg
       ELSE \E k \in JitterChoices :
            /\ pc' = "directiveWait"
            /\ i' = i
            /\ log' = Append(lg, Ev(kind, i, "", NilTo1d,
                                    addJitter(DelayBase(d, kind), k), "pending"))

\* Step 2 begins with the URLs and the statement getOwnerURLs returned
EnterOwnerLoop(urls, stmt, lg) ==
    /\ ownerURLs' = urls
    /\ to1d' = stmt
    /\ IF Len(urls) > 0
       THEN /\ pc' = "to2" /\ j' = 1 /\ i' = i /\ log' = lg
       ELSE /\ DirectiveDelay(lg) /\ j' = j

\* lines 259-262 falling back to the URLs of the directive
OwnerURLsOfDirective(stmt, d) ==
    IF stmt.IsNil THEN URLStrings(d.URLs) ELSE ExpandTo2Addrs(stmt.RV)

\* lines 259-265: no owner URL without a statement
OwnerURLsOf(stmt, d) == IF stmt.IsNil THEN <<>> ELSE ExpandTo2Addrs(stmt.RV)

\* line 235 never taking the bypass branch
IsBypassNever(d) == FALSE

IsBypass(d) == d.Bypass

\* lines 318-320 never taken
NoDirectivesNever(ds) == FALSE

\* line 318: len(directives) == 0
NoDirectives(ds) == Len(ds) = 0

ParseRvInfo ==
    /\ pc = "transferOwnership"
    /\ directives' = ParseDeviceRvInfo(rvInfo, dns)
    /\ IF NoDirectives(directives')
       THEN /\ result' = [cred |-> NilCred, err |-> ErrNoRvInfo]
            /\ pc' = "returned"
       ELSE /\ result' = result
            /\ pc' = "directive"
    /\ UNCHANGED <<to2RetryDelay, store, cancelled, i, r, j, ownerURLs,
                   to1d, startedCancelled, runErr, log, updCalls, writes>>
    /\ UNCHANGED others

\* line 232 keeping the statement of the call before
DeclareTo1dStale(prev) == prev

\* line 232: the to1d of a call of getOwnerURLs starts as nil
DeclareTo1d(prev) == NilTo1d

\* top of the directive loop and getOwnerURLs up to its first TO1 call
StartDirective ==
    /\ pc = "directive"
    /\ LET d == directives[i]
           lg == <<Ev("directive", i, "", NilTo1d, 0,
                      IF IsBypass(d) THEN "bypass" ELSE "to1")>>
       IN IF IsBypass(d)
          THEN /\ EnterOwnerLoop(URLStrings(d.URLs), DeclareTo1d(to1d), lg)
               /\ r' = r
          ELSE IF Len(d.URLs) > 0
          THEN /\ pc' = "to1" /\ r' = 1 /\ log' = lg
               /\ ownerURLs' = <<>> /\ to1d' = DeclareTo1d(to1d)
               /\ UNCHANGED <<i, j>>
          ELSE /\ EnterOwnerLoop(OwnerURLsOf(NilTo1d, d), NilTo1d, lg)
               /\ r' = r
    /\ UNCHANGED <<directives, to2RetryDelay, store, cancelled, startedCancelled,
                   result, runErr, updCalls, writes>>
    /\ UNCHANGED others

TO1Start ==
    /\ pc = "to1"
    /\ pc' = "to1call"
    /\ startedCancelled' = cancelled
    /\ log' = Append(log, Ev("TO1", r, URLString(directives[i].URLs[r]), NilTo1d, 0, "pending"))
    /\ UNCHANGED <<directives, to2RetryDelay, store, cancelled, i, r, j, ownerURLs,
                   to1d, result, runErr, updCalls, writes>>
    /\ UNCHANGED others

\* the attempts made for the current directive succeed
Healed == healed = i /\ ~startedCancelled /\ ~cancelled

\* what fdo.TO1 may return
TO1Outcomes ==
    IF Healed THEN {s \in Statements : ExpandTo2Addrs(s.RV) # <<>>}
    ELSE (IF startedCancelled THEN {} ELSE Statements \cup {NilTo1d})
         \cup (IF cancelled THEN {NilTo1d} ELSE {})

\* the TO1 loop without the break of line 254
TO1StopsNever(stmt) == FALSE

\* the TO1 loop stops at this result
TO1Stops(stmt) == ~stmt.IsNil

TO1Return ==
    /\ pc = "to1call"
    /\ \E stmt \in TO1Outcomes :
       LET lg == [log EXCEPT ![Len(log)].res = IF stmt.IsNil THEN "fail" ELSE "ok",
                             ![Len(log)].to1d = stmt]
       IN IF TO1Stops(stmt)
          THEN /\ EnterOwnerLoop(ExpandTo2Addrs(stmt.RV), stmt, lg)
               /\ r' = r
          ELSE IF r < Len(directives[i].URLs)
          THEN /\ pc' = "to1" /\ r' = r + 1 /\ log' = lg
               /\ UNCHANGED <<i, j, ownerURLs, to1d>>
          ELSE /\ EnterOwnerLoop(OwnerURLsOf(stmt, directives[i]),
                                 IF stmt.IsNil THEN NilTo1d ELSE stmt, lg)
               /\ r' = r
    /\ UNCHANGED <<directives, to2RetryDelay, store, cancelled, startedCancelled,
                   result, runErr, updCalls, writes>>
    /\ UNCHANGED others

TO2Start ==
    /\ pc = "to2"
    /\ pc' = "to2call"
    /\ startedCancelled' = cancelled
    /\ log' = Append(log, Ev("TO2", j, ownerURLs[j], to1d, 0, "pending"))
    /\ UNCHANGED <<directives, to2RetryDelay, store, cancelled, i, r, j, ownerURLs,
                   to1d, result, runErr, updCalls, writes>>
    /\ UNCHANGED others

ErrTO2 == "TO2 failed"

\* what fdo.TO2 may return: a replacement credential, (nil, nil) when the
\* credential is reused, or an error
TO2Outcomes ==
    IF Healed
    THEN {[cred |-> c, err |-> NoErr] : c \in NewCreds} \cup {[cred |-> NilCred, err |-> NoErr]}
    ELSE (IF startedCancelled THEN {}
          ELSE {[cred |-> c, err |-> NoErr] : c \in NewCreds}
               \cup {[cred |-> NilCred, err |-> NoErr], [cred |-> NilCred, err |-> ErrTO2]})
         \cup (IF cancelled THEN {[cred |-> NilCred, err |-> ErrCanceled]} ELSE {})

TO2Res(out) ==
    IF out.cred # NilCred THEN out.cred
    ELSE IF out.err = NoErr THEN "reuse"
    ELSE out.err

\* line 338 with the test inverted
TO2SucceededInverted(out) == out.cred = NilCred

\* line 338 returning after the first attempt, whatever its result
TO2SucceededAlways(out) == TRUE

\* line 338: the attempt ends the orchestration
TO2Succeeded(out) == out.cred # NilCred

\* line 346 without the test of isLastURL
RetryDelayAppliesAlways(isLastURL, delay) == delay > 0

\* line 346: the inter-URL delay applies
RetryDelayApplies(isLastURL, delay) == ~isLastURL /\ delay > 0

TO2Return ==
    /\ pc = "to2call"
    /\ \E out \in TO2Outcomes :
       LET lg == SetLastRes(log, TO2Res(out))
           isLastURL == (j = Len(ownerURLs))
       IN IF TO2Succeeded(out)
          THEN /\ result' = [cred |-> out.cred, err |-> NoErr]
               /\ pc' = "returned"
               /\ log' = lg
               /\ UNCHANGED <<i, j>>
          ELSE IF RetryDelayApplies(isLastURL, to2RetryDelay)
          THEN /\ pc' = "retryWait"
               /\ log' = Append(lg, Ev("wait-retry", j, "", NilTo1d, to2RetryDelay, "pending"))
               /\ UNCHANGED <<i, j, result>>
          ELSE IF ~isLastURL
          THEN /\ pc' = "to2" /\ j' = j + 1 /\ log' = lg
               /\ UNCHANGED <<i, result>>
          ELSE /\ DirectiveDelay(lg)
               /\ UNCHANGED <<j, result>>
    /\ UNCHANGED <<directives, to2RetryDelay, store, cancelled, r, ownerURLs, to1d,
                   startedCancelled, runErr, updCalls, writes>>
    /\ UNCHANGED others

(***************************************************************************)
(* applyDelay: the select between ctx.Done() and time.After(delay).  The   *)
(* wait ends when the context is done or, the context not being done, when *)
(* the timer fires.                                                        *)
(***************************************************************************)
\* a wait that does not look at the context (time.Sleep)
applyDelaySleep(ctxDone) == NoErr

applyDelay(ctxDone) == IF ctxDone THEN ErrCanceled ELSE NoErr

WaitRes(err) == IF err = NoErr THEN "elapsed" ELSE "canceled"

\* lines 348-350, then the next iteration of the owner URL loop
RetryWaitReturn ==
    /\ pc = "retryWait"
    /\ LET err == applyDelay(cancelled)
           lg == SetLastRes(log, WaitRes(err))
       IN IF err # NoErr
          THEN /\ result' = [cred |-> NilCred, err |-> err]
               /\ pc' = "returned"
               /\ log' = lg
               /\ UNCHANGED <<i, j>>
          ELSE IF j < Len(ownerURLs)
          THEN /\ pc' = "to2" /\ j' = j + 1 /\ log' = lg
               /\ UNCHANGED <<i, result>>
          ELSE /\ DirectiveDelay(lg)
               /\ UNCHANGED <<j, result>>
    /\ UNCHANGED <<directives, to2RetryDelay, store, cancelled, r, ownerURLs, to1d,
                   startedCancelled, runErr, updCalls, writes>>
    /\ UNCHANGED others

\* lines 360-362 and 367-369, then the next iteration of the directive loop
DirectiveWaitReturn ==
    /\ pc = "directiveWait"
    /\ LET err == applyDelay(cancelled)
       IN /\ log' = SetLastRes(log, WaitRes(err))
          /\ IF err # NoErr
             THEN /\ result' = [cred |-> NilCred, err |-> err]
                  /\ pc' = "returned"
                  /\ i' = i
             ELSE /\ result' = result
                  /\ pc' = "directive"
                  /\ i' = NextDirective(i)
    /\ UNCHANGED <<directives, to2RetryDelay, store, cancelled, r, j, ownerURLs, to1d,
                   startedCancelled, runErr, updCalls, writes>>
    /\ UNCHANGED others

(***************************************************************************)
(* doOnboard, after transferOwnership returned                             *)
(***************************************************************************)
\* lines 195-208 without the error test of line 195
DoOnboardNextNoErrTest(res) ==
    IF res.cred = NilCred /\ res.err = NoErr THEN "reuse"
    ELSE "updateCred"

\* lines 195-208
DoOnboardNext(res) ==
    IF res.err # NoErr THEN "error"
    ELSE IF res.cred = NilCred THEN "reuse"
    ELSE "updateCred"

HandleResult ==
    /\ pc = "returned"
    /\ LET next == DoOnboardNext(result)
       IN CASE next = "error" -> pc' = "done" /\ runErr' = result.err
            [] next = "reuse" -> pc' = "done" /\ runErr' = NoErr
            [] next = "updateCred" -> pc' = "updateCred" /\ runErr' = runErr
    /\ UNCHANGED <<directives, to2RetryDelay, store, cancelled, i, r, j, ownerURLs,
                   to1d, startedCancelled, result, log, updCalls, writes>>
    /\ UNCHANGED others

\* the record with another lifecycle marker
WithState(rec, state) == [rec EXCEPT !.State = state]

\* updateCred saving a record made anew around the credential
NewRecordFresh ==
    [DeviceCredential |-> result.cred, HmacSecret |-> "secret1",
     PrivateKey |-> "key1", State |-> FDO_STATE_IDLE]

\* updateCred keeping the private key but not the HMAC secret of the record
NewRecordNoHmac ==
    [DeviceCredential |-> result.cred, HmacSecret |-> NilStr,
     PrivateKey |-> store.PrivateKey, State |-> FDO_STATE_IDLE]

\* the record updateCred hands to saveCred
NewRecord == WithState([store EXCEPT !.DeviceCredential = result.cred], FDO_STATE_IDLE)

\* line 208 dropping the error of updateCred
DoOnboardReturnNil(err) == NoErr

\* line 208: doOnboard returns what updateCred returned
DoOnboardReturn(err) == err

\* line 208 calling updateCred again after it failed
UpdateCredFailedRetry == "updateCred"

\* line 208: where the run is after updateCred failed
UpdateCredFailed == "done"

\* updateCred up to the call of saveCred: read the stored record
UpdateCred ==
    /\ pc = "updateCred"
    /\ updCalls' = updCalls + 1
    /\ reads' = reads + 1
    /\ \E ok \in BOOLEAN :
         IF ok THEN pc' = "saveCred" /\ runErr' = runErr
               ELSE pc' = UpdateCredFailed /\ runErr' = DoOnboardReturn(ErrUpdateCred)
    /\ UNCHANGED <<directives, to2RetryDelay, store, cancelled, i, r, j, ownerURLs,
                   to1d, startedCancelled, result, log, writes>>
    /\ UNCHANGED <<fsVars, resale, deviceStatus, envVars, cmdVars, pureVars>>

\* saveCred, os.CreateTemp
SaveCredCreateTemp ==
    /\ pc = "saveCred"
    /\ \E ok \in BOOLEAN :
         IF ok THEN pc' = "encode" /\ tmp' = Partial /\ runErr' = runErr
               ELSE pc' = UpdateCredFailed /\ tmp' = tmp /\ runErr' = DoOnboardReturn(ErrUpdateCred)
    /\ UNCHANGED <<directives, to2RetryDelay, store, cancelled, i, r, j, ownerURLs,
                   to1d, startedCancelled, result, log, updCalls, writes>>
    /\ UNCHANGED <<reads, blobKind, target, resale, deviceStatus, envVars, cmdVars, pureVars>>

\* saveCred encoding straight into the credential path
PathContentInPlace(old, tmpc, renamed) == tmpc

\* what the credential path holds while saveCred writes: the temporary file
\* becomes the credential only by the rename
PathContent(old, tmpc, renamed) == IF renamed THEN tmpc ELSE old

\* saveCred, Encode into the temporary file
SaveCredEncode ==
    /\ pc = "encode"
    /\ \E ok \in BOOLEAN :
         IF ok THEN pc' = "rename" /\ tmp' = NewRecord /\ runErr' = runErr
               ELSE pc' = UpdateCredFailed /\ tmp' = Partial /\ runErr' = DoOnboardReturn(ErrUpdateCred)
    /\ store' = PathContent(store, tmp', FALSE)
    /\ UNCHANGED <<directives, to2RetryDelay, cancelled, i, r, j, ownerURLs,
                   to1d, startedCancelled, result, log, updCalls, writes>>
    /\ UNCHANGED <<reads, blobKind, target, resale, deviceStatus, envVars, cmdVars, pureVars>>

\* saveCred, os.Rename of the temporary file to blobPath: a symbolic link at
\* blobPath is replaced by the file, the file it pointed to is not touched
SaveCredRename ==
    /\ pc = "rename"
    /\ \E ok \in BOOLEAN :
         IF ok
         THEN /\ store' = PathContent(store, tmp, TRUE)
              /\ tmp' = NoFile
              /\ blobKind' = "file"
              /\ writes' = writes + 1
              /\ runErr' = DoOnboardReturn(NoErr)
              /\ pc' = "done"
         ELSE /\ UNCHANGED <<store, tmp, blobKind, writes>>
              /\ runErr' = DoOnboardReturn(ErrUpdateCred)
              /\ pc' = UpdateCredFailed
    /\ UNCHANGED <<directives, to2RetryDelay, cancelled, i, r, j, ownerURLs, to1d,
                   startedCancelled, result, log, updCalls>>
    /\ UNCHANGED <<reads, target, resale, deviceStatus, envVars, cmdVars, pureVars>>

Next ==
    \/ Cancel
    \/ RunE
    \/ ReadCred
    \/ ParseRvInfo
    \/ StartDirective
    \/ TO1Start
    \/ TO1Return
    \/ TO2Start
    \/ TO2Return
    \/ RetryWaitReturn
    \/ DirectiveWaitReturn
    \/ HandleResult
    \/ UpdateCred
    \/ SaveCredCreateTemp
    \/ SaveCredEncode
    \/ SaveCredRename

Spec == Init /\ [][Next]_vars

(***************************************************************************)
(* The command run again and again on one device                           *)
(***************************************************************************)
\* directive lists of at most one directive
RunDirectiveLists == {<<>>} \cup {<<d>> : d \in DirectiveSet}

InitRuns ==
    /\ rvInfo \in RunDirectiveLists
    /\ directives = <<>>
    /\ dns = RvNames
    /\ CmdStart
    /\ to2RetryDelay \in RetryDelays
    /\ \E st \in DeviceStates : store = StoredRecord(LoadedCred, st)
    /\ blobKind \in {"file", "symlink"}
    /\ target = IF blobKind = "symlink" THEN store ELSE NoFile
    /\ resale \in BOOLEAN
    /\ RunStart
    /\ Parked

\* the process ended; the command is started again
NewRun ==
    /\ pc = "done"
    /\ pc' = "RunE"
    /\ resale' \in BOOLEAN
    /\ cancelled' = FALSE
    /\ i' = 1 /\ r' = 1 /\ j' = 1
    /\ ownerURLs' = <<>>
    /\ to1d' = NilTo1d
    /\ startedCancelled' = FALSE
    /\ result' = NoResult
    /\ runErr' = NotReturned
    /\ log' = <<>>
    /\ updCalls' = 0 /\ writes' = 0 /\ reads' = 0
    /\ tmp' = NoFile
    /\ deviceStatus' = NilStr
    /\ directives' = <<>>
    /\ UNCHANGED <<to2RetryDelay, store, blobKind, target, envVars, cmdVars, pureVars>>

NextRuns ==
    \/ Next
    \/ NewRun

SpecRuns == InitRuns /\ [][NextRuns]_vars

(***************************************************************************)
(* One run while the resolver's answers change                             *)
(***************************************************************************)
\* the resolver starts or stops resolving names of the instructions
DNSChange ==
    /\ pc # "done"
    /\ \E up \in SUBSET RvNames : up # dns /\ dns' = up
    /\ UNCHANGED <<directives, to2RetryDelay, store, cancelled, pc, i, r, j, ownerURLs,
                   to1d, startedCancelled, result, runErr, log, updCalls, writes,
                   reads, fsVars, resale, deviceStatus, rvInfo, healed, cmdVars,
                   pureVars>>

\* rendezvous instructions of one directive with two DNS names
InitDNS ==
    /\ rvInfo \in {<<[URLs |-> <<RvURL1, RvURL2>>, Delay |-> 0, Bypass |-> b]>> : b \in BOOLEAN}
    /\ directives = <<>>
    /\ dns \in SUBSET RvNames
    /\ CmdStart
    /\ to2RetryDelay = 5
    /\ store = StoredRecord(LoadedCred, FDO_STATE_PRE_TO1)
    /\ blobKind = "file"
    /\ target = NoFile
    /\ resale = FALSE
    /\ RunStart
    /\ Parked

SpecDNS == InitDNS /\ [][Next \/ DNSChange]_vars

(***************************************************************************)
(* One run whose steps are taken for as long as one is possible: fdo.TO1   *)
(* and fdo.TO2 return, the timers of applyDelay fire; an owner becomes     *)
(* reachable through one directive at some moment.                         *)
(***************************************************************************)
\* from now on the TO1 and TO2 attempts made for directive d succeed
Heal ==
    /\ healed = 0
    /\ pc # "done"
    /\ \E d \in 1..Len(rvInfo) : rvInfo[d].URLs # <<>> /\ healed' = d
    /\ UNCHANGED <<directives, to2RetryDelay, store, cancelled, pc, i, r, j, ownerURLs,
                   to1d, startedCancelled, result, runErr, log, updCalls, writes,
                   reads, fsVars, resale, deviceStatus, rvInfo, dns, cmdVars,
                   pureVars>>

\* rendezvous instructions of a TO1 directive followed by a bypass directive
\* (in either order of their delays), or of one directive without a delay of
\* its own, with or without URLs
InitLive ==
    /\ rvInfo \in
         {<<[URLs |-> <<RvURL1, RvURL2>>, Delay |-> 0, Bypass |-> FALSE],
            [URLs |-> <<RvURL1, RvURL2>>, Delay |-> 8, Bypass |-> TRUE]>>,
          <<[URLs |-> <<RvURL1, RvURL2>>, Delay |-> 8, Bypass |-> FALSE],
            [URLs |-> <<RvURL1, RvURL2>>, Delay |-> 0, Bypass |-> TRUE]>>,
          <<[URLs |-> <<RvURL1, RvURL2>>, Delay |-> 0, Bypass |-> FALSE]>>,
          <<[URLs |-> <<>>, Delay |-> 0, Bypass |-> FALSE]>>}
    /\ directives = <<>>
    /\ dns = RvNames
    /\ CmdStart
    /\ to2RetryDelay = 5
    /\ store = StoredRecord(LoadedCred, FDO_STATE_PRE_TO1)
    /\ blobKind = "file"
    /\ target = NoFile
    /\ resale = FALSE
    /\ RunStart
    /\ Parked

SpecLive == InitLive /\ [][Next \/ Heal]_vars /\ WF_vars(Next)

(***************************************************************************)
(* The onboard command from PreRunE to the return of RunE, for every       *)
(* configuration of the flags                                              *)
(***************************************************************************)
\* validateKey: the key types of --key
validKeys == {"ec256", "ec384", "rsa2048", "rsa3072"}

\* OnboardClientConfig.validate accepting any key exchange suite
validateAnyKex(c) ==
    IF c.DefaultWorkingDir \notin AbsPaths THEN "default-working-dir must be an absolute path"
    ELSE IF ~fileExists(c.DefaultWorkingDir) THEN "invalid default working directory"
    ELSE IF c.DefaultWorkingDir \notin WritableDirs THEN "default working directory is not writable"
    ELSE IF c.Key = "" THEN "--key is required"
    ELSE IF c.Key \notin validKeys THEN "invalid key type"
    ELSE IF c.Cipher \notin validCipherSuites THEN "invalid cipher suite"
    ELSE IF c.Download # "" /\ (~isValidPath(c.Download) \/ ~fileExists(c.Download))
    THEN "invalid download directory"
    ELSE IF c.MaxServiceInfoSize < 0 \/ c.MaxServiceInfoSize > 65535
    THEN "max-serviceinfo-size must be between 0 and 65535"
    ELSE IF c.WgetDir # "" /\ (~isValidPath(c.WgetDir) \/ ~fileExists(c.WgetDir))
    THEN "invalid wget directory"
    ELSE NoErr

\* OnboardClientConfig.validate
validate(c) ==
    IF c.DefaultWorkingDir \notin AbsPaths THEN "default-working-dir must be an absolute path"
    ELSE IF ~fileExists(c.DefaultWorkingDir) THEN "invalid default working directory"
    ELSE IF c.DefaultWorkingDir \notin WritableDirs THEN "default working directory is not writable"
    ELSE IF c.Key = "" THEN "--key is required"
    ELSE IF c.Key \notin validKeys THEN "invalid key type"
    ELSE IF c.Kex = "" THEN "--kex is required"
    ELSE IF c.Cipher \notin validCipherSuites THEN "invalid cipher suite"
    ELSE IF c.Download # "" /\ (~isValidPath(c.Download) \/ ~fileExists(c.Download))
    THEN "invalid download directory"
    ELSE IF c.Kex \notin validKexSuites THEN "invalid key exchange suite"
    ELSE IF c.MaxServiceInfoSize < 0 \/ c.MaxServiceInfoSize > 65535
    THEN "max-serviceinfo-size must be between 0 and 65535"
    ELSE IF c.WgetDir # "" /\ (~isValidPath(c.WgetDir) \/ ~fileExists(c.WgetDir))
    THEN "invalid wget directory"
    ELSE NoErr

\* what the flags and the configuration file may set
Configs ==
    [TPM : {"", "/dev/tpmrm0"},
     Key : {"ec256", "", "dsa"},
     DefaultWorkingDir : {"/var/lib/fdo", "work", "/missing", "/readonly"},
     Kex : {"ECDH256", "", "bogus"},
     Cipher : {"A128GCM", "bogus"},
     Download : {"", "/dl", "/missing"},
     MaxServiceInfoSize : {1300, 0, 65535, -1, 65536},
     WgetDir : {"", "/dl", "/missing"}]

\* onboardCmd.PreRunE: cobra runs RunE only if it returns nil
PreRunE ==
    /\ pc = "PreRunE"
    /\ \E bound \in BOOLEAN :
         IF ~bound THEN pc' = "done" /\ runErr' = "error binding flags"
         ELSE IF validate(config) # NoErr THEN pc' = "done" /\ runErr' = validate(config)
         ELSE pc' = "RunE" /\ runErr' = runErr
    /\ UNCHANGED <<directives, to2RetryDelay, store, cancelled, i, r, j, ownerURLs,
                   to1d, startedCancelled, result, log, updCalls, writes>>
    /\ UNCHANGED others

\* the command returns: the deferred calls of the run close their handles
Exit ==
    /\ pc = "done"
    /\ pc' = "exited"
    /\ handles' = handles \ defers
    /\ defers' = {}
    /\ UNCHANGED <<directives, to2RetryDelay, store, cancelled, i, r, j, ownerURLs,
                   to1d, startedCancelled, result, runErr, log, updCalls, writes,
                   reads, fsVars, resale, deviceStatus, envVars, config, pureVars>>

InitCmd ==
    /\ config \in Configs
    /\ handles = {} /\ defers = {} /\ healed = 0
    /\ rvInfo = <<[URLs |-> <<RvURL1, RvURL2>>, Delay |-> 0, Bypass |-> FALSE]>>
    /\ directives = <<>>
    /\ dns = RvNames
    /\ to2RetryDelay = 5
    /\ store = StoredRecord(LoadedCred, FDO_STATE_PRE_TO1)
    /\ blobKind = "file"
    /\ target = NoFile
    /\ resale = FALSE
    /\ cancelled = FALSE
    /\ pc = "PreRunE"
    /\ i = 1 /\ r = 1 /\ j = 1
    /\ ownerURLs = <<>>
    /\ to1d = NilTo1d
    /\ startedCancelled = FALSE
    /\ result = NoResult
    /\ runErr = NotReturned
    /\ log = <<>>
    /\ updCalls = 0 /\ writes = 0 /\ reads = 0
    /\ tmp = NoFile
    /\ deviceStatus = NilStr
    /\ Parked

SpecCmd == InitCmd /\ [][PreRunE \/ Next \/ Exit]_vars

(***************************************************************************)
(* addJitter applied to a delay                                            *)
(***************************************************************************)
MaxJitterDelay == 60

\* the variables of the command while a function is applied on its own
NoRun ==
    /\ rvInfo = <<>>
    /\ directives = <<>>
    /\ dns = RvNames
    /\ CmdStart
    /\ to2RetryDelay = 0
    /\ store = StoredRecord(LoadedCred, FDO_STATE_PRE_TO1)
    /\ blobKind = "file"
    /\ target = NoFile
    /\ resale = FALSE
    /\ cancelled = FALSE
    /\ i = 1 /\ r = 1 /\ j = 1
    /\ ownerURLs = <<>>
    /\ to1d = NilTo1d
    /\ startedCancelled = FALSE
    /\ result = NoResult
    /\ runErr = NotReturned
    /\ log = <<>>
    /\ updCalls = 0 /\ writes = 0 /\ reads = 0
    /\ tmp = NoFile
    /\ deviceStatus = NilStr

InitJitter ==
    /\ jitterIn \in 0..MaxJitterDelay
    /\ jitterOut = 0
    /\ pc = "addJitter"
    /\ NoRun
    /\ mv = Idle /\ tr = Idle /\ call = Idle /\ vo = Idle

ApplyJitter ==
    /\ pc = "addJitter"
    /\ \E k \in JitterChoices : jitterOut' = addJitter(jitterIn, k)
    /\ UNCHANGED <<runVars, pc, jitterIn, mv, tr, call, vo>>

NextJitter == ApplyJitter

SpecJitter == InitJitter /\ [][NextJitter]_vars

(***************************************************************************)
(* fdotest.Transport.Send called again and again on one transport          *)
(***************************************************************************)
MaxSends == 3                         \* calls of the Responder

MsgTypes == {30, 32, 60, 62}          \* TO1.HelloRV, TO1.ProveToRV, TO2.HelloDevice, TO2.GetOVNextEntry

\* fdo.ProtocolOf: the protocol a message type belongs to
ProtocolOf(t) ==
    IF t \in 10..13 THEN "DI" ELSE IF t \in 20..23 THEN "TO0"
    ELSE IF t \in 30..33 THEN "TO1" ELSE IF t \in 60..71 THEN "TO2"
    ELSE IF t = 255 THEN "Any" ELSE "Unknown"

\* the select of lines 36-40 with its ctx.Done() case removed
CtxIsDoneNever(done) == FALSE

\* lines 36-40: the context is done when Send is entered
CtxIsDone(done) == done

\* lines 48-50: the token the Responder is given
TokenSent(token, prevMsg, msgType) ==
    IF msgType < prevMsg \/ ProtocolOf(prevMsg) # ProtocolOf(msgType) THEN "" ELSE token

SendReturn(respType, err) == [respType |-> respType, err |-> err]

Send ==
    /\ pc = "Send"
    /\ \E done \in BOOLEAN, msgType \in MsgTypes, msgOK \in BOOLEAN :
         IF CtxIsDone(done)
         THEN tr' = [tr EXCEPT !.done = done, !.msgType = msgType,
                               !.ret = SendReturn(0, ErrCanceled)]
         ELSE IF ~msgOK
         THEN tr' = [tr EXCEPT !.done = done, !.msgType = msgType,
                               !.ret = SendReturn(0, "cbor: unsupported type")]
         ELSE /\ tr.calls < MaxSends
              /\ \E newToken \in {"", "tok1", "tok2"}, respType \in {msgType + 1, 255},
                    respOK \in BOOLEAN :
                   tr' = [tr EXCEPT !.done = done, !.msgType = msgType,
                                    !.given = TokenSent(tr.token, tr.prevMsg, msgType),
                                    !.newToken = newToken,
                                    !.token = newToken,
                                    !.prevMsg = msgType,
                                    !.calls = @ + 1,
                                    !.ret = IF respOK THEN SendReturn(respType, NoErr)
                                            ELSE SendReturn(0, "cbor: unsupported type")]
    /\ UNCHANGED <<runVars, pc, jitterIn, jitterOut, mv, call, vo>>

InitSend ==
    /\ tr = [op |-> "Send", token |-> "", prevMsg |-> 0, calls |-> 0, done |-> FALSE,
             msgType |-> 0, given |-> "", newToken |-> "",
             ret |-> SendReturn(0, NotReturned)]
    /\ pc = "Send"
    /\ NoRun
    /\ jitterIn = 0 /\ jitterOut = 0 /\ mv = Idle /\ call = Idle /\ vo = Idle

SpecSend == InitSend /\ [][Send]_vars

(***************************************************************************)
(* moveFile and copyAndRemove on a file system of a source path, a         *)
(* destination path and the temporary file of the destination directory.   *)
(* A file is written block by block; the run may stop between two steps.   *)
(***************************************************************************)
MaxBlocks == 2                        \* blocks of the largest source file

\* what a path names: nothing, a regular file or a symbolic link
Node(kind, content, perm) == [kind |-> kind, content |-> content, perm |-> perm]
Absent == Node("absent", <<>>, 0)

\* regular files of up to MaxBlocks blocks with mode 0600 or 0644
Files == {Node("file", [k \in 1..n |-> k], q) : n \in 0..MaxBlocks, q \in {384, 420}}

ErrMove == "moveFile failed"

\* lines 86-91 leaving the temporary file in place
CleanupNever(successful, t) == t

\* lines 86-91: the deferred function of copyAndRemove
Cleanup(successful, t) == IF successful THEN t ELSE Absent

\* line 79 and a Chmod that does nothing
TempModeDefault(mode) == 384

\* line 94: tmpDst.Chmod(srcInfo.Mode())
TempMode(mode) == mode

\* moveFile up to its return or its call of copyAndRemove
MoveFile ==
    /\ pc = "moveFile" /\ mv.at = "moveFile"
    /\ \E lstatOK \in BOOLEAN, renameOK \in BOOLEAN :
         IF ~lstatOK \/ mv.dst.kind = "symlink"
         THEN mv' = [mv EXCEPT !.at = "returned", !.ret = ErrMove]
         ELSE IF mv.src.kind = "absent" \/ (~mv.xdev /\ ~renameOK)
         THEN mv' = [mv EXCEPT !.at = "returned", !.ret = ErrMove]
         ELSE IF ~mv.xdev
         THEN mv' = [mv EXCEPT !.at = "returned", !.ret = NoErr,
                               !.dst = mv.src, !.src = Absent]
         ELSE mv' = [mv EXCEPT !.at = "copyAndRemove"]
    /\ UNCHANGED <<runVars, pc, jitterIn, jitterOut, tr, call, vo>>

\* copyAndRemove, lines 67-96: the source is opened, the temporary file is
\* created in the directory of the destination and given the source's mode
CopyCreateTemp ==
    /\ pc = "moveFile" /\ mv.at = "copyAndRemove"
    /\ \E openOK \in BOOLEAN, tempOK \in BOOLEAN, chmodOK \in BOOLEAN :
         IF ~openOK \/ ~tempOK
         THEN mv' = [mv EXCEPT !.at = "returned", !.ret = ErrMove]
         ELSE IF ~chmodOK
         THEN mv' = [mv EXCEPT !.at = "returned", !.ret = ErrMove,
                               !.tmpf = Cleanup(FALSE, Node("file", <<>>, 384))]
         ELSE mv' = [mv EXCEPT !.at = "copy",
                               !.tmpf = Node("file", <<>>, TempMode(mv.src.perm))]
    /\ UNCHANGED <<runVars, pc, jitterIn, jitterOut, tr, call, vo>>

\* line 98: io.Copy writes the next block, fails, or has reached the end
CopyWrite ==
    /\ pc = "moveFile" /\ mv.at = "copy"
    /\ \E writeOK \in BOOLEAN :
         LET n == Len(mv.tmpf.content)
         IN IF ~writeOK
            THEN mv' = [mv EXCEPT !.at = "returned", !.ret = ErrMove,
                                  !.tmpf = Cleanup(FALSE, @)]
            ELSE IF n < Len(mv.src.content)
            THEN mv' = [mv EXCEPT !.tmpf.content = Append(@, mv.src.content[n + 1]),
                                  !.copied = @ + 1]
            ELSE mv' = [mv EXCEPT !.at = "rename"]
    /\ UNCHANGED <<runVars, pc, jitterIn, jitterOut, tr, call, vo>>

\* lines 102-115: Sync, Close and the rename onto the destination
CopyRename ==
    /\ pc = "moveFile" /\ mv.at = "rename"
    /\ \E syncOK \in BOOLEAN, renameOK \in BOOLEAN :
         IF ~syncOK \/ ~renameOK
         THEN mv' = [mv EXCEPT !.at = "returned", !.ret = ErrMove,
                               !.tmpf = Cleanup(FALSE, @)]
         ELSE mv' = [mv EXCEPT !.at = "remove", !.dst = mv.tmpf,
                               !.tmpf = Cleanup(TRUE, Absent)]
    /\ UNCHANGED <<runVars, pc, jitterIn, jitterOut, tr, call, vo>>

\* lines 117-121: the source is removed
CopyRemove ==
    /\ pc = "moveFile" /\ mv.at = "remove"
    /\ \E removeOK \in BOOLEAN :
         IF removeOK
         THEN mv' = [mv EXCEPT !.at = "returned", !.ret = NoErr, !.src = Absent]
         ELSE mv' = [mv EXCEPT !.at = "returned", !.ret = ErrMove]
    /\ UNCHANGED <<runVars, pc, jitterIn, jitterOut, tr, call, vo>>

InitMove ==
    /\ \E s \in Files \cup {Absent}, d \in Files \cup {Absent, Node("symlink", <<>>, 511)}, x \in BOOLEAN :
         mv = [op |-> "moveFile", at |-> "moveFile", src |-> s, dst |-> d,
               tmpf |-> Absent, copied |-> 0, ret |-> NotReturned, xdev |-> x,
               src0 |-> s, dst0 |-> d]
    /\ pc = "moveFile"
    /\ NoRun
    /\ jitterIn = 0 /\ jitterOut = 0 /\ tr = Idle /\ call = Idle /\ vo = Idle

SpecMove ==
    InitMove /\ [][MoveFile \/ CopyCreateTemp \/ CopyWrite \/ CopyRename \/ CopyRemove]_vars

(***************************************************************************)
(* The service info modules: initializeFSIMs, the NameToPath functions it  *)
(* installs and WorkingDirFS.Open.  A path is its list of components and   *)
(* whether it starts at the root; "" and "." are both written as the       *)
(* relative path of no component.                                          *)
(***************************************************************************)
MaxParts == 3                         \* components of the longest name

Path(abs, parts) == [abs |-> abs, parts |-> parts]
Names ==
    {Path(abs, parts) : abs \in BOOLEAN,
                        parts \in UNION {[1..n -> {"a", "b", "..", "."}] : n \in 0..MaxParts}}

\* filepath.Clean, component by component
RECURSIVE CleanParts(_, _, _)
CleanParts(rest, out, abs) ==
    IF rest = <<>> THEN out
    ELSE LET c == Head(rest)
         IN IF c = "." THEN CleanParts(Tail(rest), out, abs)
            ELSE IF c # ".." THEN CleanParts(Tail(rest), Append(out, c), abs)
            ELSE IF out # <<>> /\ Last(out) # ".."
            THEN CleanParts(Tail(rest), SubSeq(out, 1, Len(out) - 1), abs)
            ELSE IF abs THEN CleanParts(Tail(rest), out, abs)
            ELSE CleanParts(Tail(rest), Append(out, ".."), abs)

Clean(n) == Path(n.abs, CleanParts(n.parts, <<>>, n.abs))

\* filepath.Base: the last element, "/" for the root, "." for the empty path
Base(n) ==
    IF n.parts = <<>> THEN (IF n.abs THEN Path(TRUE, <<>>) ELSE Path(FALSE, <<".">>))
    ELSE Path(FALSE, <<Last(n.parts)>>)

\* filepath.Join of a directory and one element
Join(dir, elem) ==
    IF dir = Path(FALSE, <<>>) THEN Clean(elem)
    ELSE Clean(Path(dir.abs, dir.parts \o elem.parts))

\* initializeFSIMs without the fdo.command module
initializeFSIMsNoCommand(dlDir, wgetDir, defaultWorkingDir, enableInteropTest) ==
    [name \in (IF enableInteropTest THEN {"fido_alliance"} ELSE {})
              \cup {"fdo.download", "fdo.upload", "fdo.wget"} |->
        [module |-> name, dir |-> dlDir]]

\* initializeFSIMs: the registry, each module with the directory it is given
initializeFSIMs(dlDir, wgetDir, defaultWorkingDir, enableInteropTest) ==
    [name \in (IF enableInteropTest THEN {"fido_alliance"} ELSE {})
              \cup {"fdo.command", "fdo.download", "fdo.upload", "fdo.wget"} |->
        [module |-> name,
         dir |-> CASE name = "fdo.download" -> dlDir
                   [] name = "fdo.wget" -> wgetDir
                   [] name = "fdo.upload" -> defaultWorkingDir
                   [] OTHER -> Path(FALSE, <<>>)]]

CallInitializeFSIMs ==
    /\ pc = "call" /\ call.op = "initializeFSIMs" /\ call.at = "call"
    /\ call' = [call EXCEPT !.at = "returned", !.ret = initializeFSIMs(call.dir, call.wget, call.wd, call.interop)]
    /\ UNCHANGED <<runVars, pc, jitterIn, jitterOut, mv, tr, vo>>

\* lines 409-412 and 436-439: the NameToPath of a module with a directory
NameToPath ==
    /\ pc = "call" /\ call.op = "NameToPath" /\ call.at = "call"
    /\ call' = [call EXCEPT !.at = "returned", !.ret = Join(call.dir, Base(Clean(call.name)))]
    /\ UNCHANGED <<runVars, pc, jitterIn, jitterOut, mv, tr, vo>>

\* os.Open and file.Stat on the file system WorkingDirFS opens: the regular
\* files /a/b and /b, the directories /, /a and /a/a
Stat(path) ==
    IF path \in {Path(TRUE, <<"a", "b">>), Path(TRUE, <<"b">>)} THEN "file"
    ELSE IF path \in {Path(TRUE, <<>>), Path(TRUE, <<"a">>), Path(TRUE, <<"a", "a">>)}
    THEN "dir" ELSE "absent"

ErrPermission == "permission denied"          \* fs.ErrPermission
NoPath == Path(FALSE, <<"nil">>)              \* no path, no file

\* lines 499-507 with the check of the resolved path removed
EscapesNever(targetPath, dir) == FALSE

\* lines 499-500: the resolved path is not within the default directory
Escapes(targetPath, dir) ==
    LET d == Clean(dir)
        \* strings.HasPrefix(targetPath, d + "/"), both paths being clean
        hasPrefix == /\ d.parts # <<>>
                     /\ targetPath.abs = d.abs
                     /\ Len(targetPath.parts) > Len(d.parts)
                     /\ SubSeq(targetPath.parts, 1, Len(d.parts)) = d.parts
    IN ~hasPrefix /\ targetPath # d

\* WorkingDirFS.Open
Open ==
    /\ pc = "call" /\ call.op = "Open" /\ call.at = "call"
    /\ LET targetPath == IF call.name.abs THEN call.name ELSE Join(call.dir, call.name)
           found == Clean(targetPath)
       IN IF ~call.name.abs /\ Escapes(targetPath, call.dir)
          THEN call' = [call EXCEPT !.at = "returned", !.ret = ErrPermission]
          ELSE IF Stat(found) = "dir"
          THEN call' = [call EXCEPT !.at = "returned", !.ret = "invalid argument",
                                    !.opened = targetPath, !.closed = TRUE]
          ELSE IF Stat(found) = "file"
          THEN call' = [call EXCEPT !.at = "returned", !.ret = NoErr,
                                    !.opened = targetPath, !.file = found]
          ELSE call' = [call EXCEPT !.at = "returned", !.ret = "file does not exist",
                                    !.opened = targetPath]
    /\ UNCHANGED <<runVars, pc, jitterIn, jitterOut, mv, tr, vo>>

MaxAddrs == 2                        \* addresses of the longest statement

\* protocol.RvTO2Addr values: the name is absent, resolvable or not, the IP
\* address is absent, valid (IPv4, IPv6) or of a wrong length
To2Addrs ==
    [DNSAddress : {NilStr, "owner.example", "gone.example"},
     IPAddress : {NilStr, "10.0.0.2", "fd00::2", "?0a00"},
     Port : {0, 8043},
     TransportProtocol : {HTTPTransport, HTTPSTransport, TCPTransport}]

\* getOwnerURLs from line 264 on: fdo.TO1 returned the statement call.to1d
GetOwnerURLs ==
    /\ pc = "call" /\ call.op = "getOwnerURLs" /\ call.at = "call"
    /\ call' = [call EXCEPT !.at = "returned",
                            !.ret = [ownerURLs |-> ExpandTo2Addrs(call.to1d.RV),
                                     to1d |-> call.to1d]]
    /\ UNCHANGED <<runVars, pc, jitterIn, jitterOut, mv, tr, vo>>

\* the directories are none ("") or a directory
InitCalls ==
    /\ LET dirs == {Path(FALSE, <<>>), Path(TRUE, <<"a">>), Path(TRUE, <<"a", "b">>)}
       IN
       \/ \E d \in dirs, w \in dirs, wd \in dirs, t \in BOOLEAN :
            call = [op |-> "initializeFSIMs", dir |-> d, wget |-> w, wd |-> wd,
                    interop |-> t, at |-> "call", ret |-> <<>>]
       \/ \E d \in dirs \ {Path(FALSE, <<>>)}, n \in Names :
            call = [op |-> "NameToPath", dir |-> d, name |-> n, at |-> "call",
                    ret |-> NoPath]
       \/ \E d \in {Path(TRUE, <<"a">>), Path(TRUE, <<>>)}, n \in Names :
            call = [op |-> "Open", dir |-> d, name |-> n, opened |-> NoPath,
                    file |-> NoPath, closed |-> FALSE, at |-> "call", ret |-> NotReturned]
       \/ \E rv \in UNION {[1..n -> To2Addrs] : n \in 0..MaxAddrs} :
            call = [op |-> "getOwnerURLs", to1d |-> To1d(rv), at |-> "call",
                    ret |-> [ownerURLs |-> <<>>, to1d |-> NilTo1d]]
    /\ pc = "call"
    /\ NoRun
    /\ jitterIn = 0 /\ jitterOut = 0 /\ mv = Idle /\ tr = Idle /\ vo = Idle

SpecCalls == InitCalls /\ [][CallInitializeFSIMs \/ NameToPath \/ Open \/ GetOwnerURLs]_vars

(***************************************************************************)
(* Vouchers: Voucher.VerifyEntries and ExtendVoucher (protocol/voucher.go) *)
(***************************************************************************)
MaxEntries == 2                      \* entries of the longest voucher given
MaxExtends == 2                      \* calls of ExtendVoucher

Sha256Hash == "SHA256"
Sha384Hash == "SHA384"
NoHashAlg == "HashAlg(0)"            \* not an algorithm of the protocol

\* A private key and its public key carry one name.  k1, k2 and k3 are ECDSA
\* keys of one curve, P256Key is an ECDSA key of another curve, BadKey is a
\* PublicKey structure that Public() fails to parse.
VoucherKeys == {"k1", "k2", "k3"}
P256Key == "p256"
BadKey == "bad"
Forged == "forged"                   \* a signature no key of the model made

\* hash.Hash.Sum(nil) after the encoding of data was written; NoBytes is a
\* nil or empty byte slice
Sum(alg, data) == [alg |-> alg, data |-> data]
NoBytes == [alg |-> "", data |-> [kind |-> "none"]]
Hash(alg, value) == [Algorithm |-> alg, Value |-> value]
hmacEqual(a, b) == a = b

VoucherHeader(mfg) ==
    [kind |-> "header", GUID |-> "guid0", DeviceInfo |-> "dev0", ManufacturerKey |-> mfg]
VoucherHmac == "hmac0"

\* GUID || DeviceInfo of a header
HeaderInfo(h) == [kind |-> "headerInfo", GUID |-> h.GUID, DeviceInfo |-> h.DeviceInfo]
\* the encoded header followed by the encoded header HMAC
HeaderAndHmac(h, mac) == [kind |-> "header+hmac", Header |-> h, Hmac |-> mac]

\* lines 327-333: the map of the header info sums, where the lookup of a
\* missing key gives nil
headerInfoSums(h) ==
    [alg \in {Sha256Hash, Sha384Hash, NoHashAlg} |-> IF alg \in {Sha256Hash, Sha384Hash} THEN Sum(alg, HeaderInfo(h))
                          ELSE NoBytes]

\* a signed entry: cose.Sign1Tag[VoucherEntryPayload] with the key that signed it
VoucherEntry(prevHash, headerHash, pub, signer) ==
    [kind |-> "entry", PreviousHash |-> prevHash, HeaderHash |-> headerHash,
     PublicKey |-> pub, sig |-> signer]

ErrVerify == "cryptographic verification failed"
ErrParseKey == "error parsing public key"
ErrHashAlg == "unsupported hash algorithm"

\* lines 341-390; prevHash is the sum of the hash handed over
RECURSIVE validateNextEntry(_, _, _, _)
validateNextEntry(prevOwnerKey, prevHash, headerInfo, entries) ==
    LET entry == Head(entries)
        headerHash == entry.HeaderHash
    IN IF entry.sig # prevOwnerKey THEN ErrVerify
       ELSE IF ~hmacEqual(headerHash.Value, headerInfo[headerHash.Algorithm]) THEN ErrVerify
       ELSE IF ~hmacEqual(prevHash, entry.PreviousHash.Value) THEN ErrVerify
       ELSE IF Len(Tail(entries)) = 0 THEN NoErr
       ELSE IF entry.PublicKey = BadKey THEN ErrParseKey
       ELSE IF entries[2].PreviousHash.Algorithm \notin {Sha256Hash, Sha384Hash}
       THEN ErrHashAlg
       ELSE validateNextEntry(entry.PublicKey,
                              Sum(entries[2].PreviousHash.Algorithm, entry),
                              headerInfo, Tail(entries))

\* lines 299-339
VerifyEntries(h, mac, entries) ==
    IF h.ManufacturerKey = BadKey THEN ErrParseKey
    ELSE IF Len(entries) = 0 THEN NoErr
    ELSE IF entries[1].PreviousHash.Algorithm \notin {Sha256Hash, Sha384Hash} THEN ErrHashAlg
    ELSE validateNextEntry(h.ManufacturerKey,
                           Sum(entries[1].PreviousHash.Algorithm, HeaderAndHmac(h, mac)),
                           headerInfoSums(h), entries)

\* The entries a voucher may be given with: each is signed by the owner before
\* it or carries a forged signature, names the next owner or a key that does
\* not parse, and carries a header hash and a previous hash that are right,
\* wrong, or of no algorithm (an empty header hash, a previous hash value
\* under an unsupported algorithm).
EntryKinds ==
    [sig : {"owner", Forged}, hh : {Sha384Hash, Sha256Hash, "wrong", "empty"},
     ph : {Sha384Hash, "wrong", NoHashAlg}, pub : {"k2", BadKey}]

MakeEntry(h, signer, prev, kd) ==
    VoucherEntry(
        CASE kd.ph = "wrong" -> Hash(Sha384Hash, Sum(Sha384Hash, [kind |-> "other"]))
          [] kd.ph = NoHashAlg -> Hash(NoHashAlg, Sum(Sha384Hash, prev))
          [] OTHER -> Hash(kd.ph, Sum(kd.ph, prev)),
        CASE kd.hh = "wrong" -> Hash(Sha384Hash, Sum(Sha384Hash, [kind |-> "other"]))
          [] kd.hh = "empty" -> Hash(NoHashAlg, NoBytes)
          [] OTHER -> Hash(kd.hh, Sum(kd.hh, HeaderInfo(h))),
        kd.pub,
        IF kd.sig = "owner" THEN signer ELSE Forged)

RECURSIVE MakeEntries(_, _, _, _)
MakeEntries(h, signer, prev, kinds) ==
    IF kinds = <<>> THEN <<>>
    ELSE LET e == MakeEntry(h, signer, prev, Head(kinds))
         IN <<e>> \o MakeEntries(h, e.PublicKey, e, Tail(kinds))

\* Voucher.VerifyEntries on the voucher vo.v
CallVerifyEntries ==
    /\ pc = "call" /\ vo.op = "VerifyEntries" /\ vo.at = "call"
    /\ vo' = [vo EXCEPT !.at = "returned",
                        !.ret = VerifyEntries(vo.v.Header, vo.v.Hmac, vo.v.Entries)]
    /\ UNCHANGED <<runVars, pc, jitterIn, jitterOut, mv, tr, call>>

\* A slice of entries: the array it points into (0: none) and its length.
\* vo.heap holds the arrays, each as long as its capacity.
EntriesOf(heap, s) == IF s.arr = 0 THEN <<>> ELSE SubSeq(heap[s.arr], 1, s.len)
ZeroEntry ==
    VoucherEntry(Hash(NoHashAlg, NoBytes), Hash(NoHashAlg, NoBytes), BadKey, "unsigned")

\* append(s, e) of line 515: in place when the capacity allows it, otherwise
\* into a new array of twice the length
appendEntry(heap, s, e) ==
    IF s.arr # 0 /\ s.len < Len(heap[s.arr])
    THEN [heap |-> [heap EXCEPT ![s.arr][s.len + 1] = e],
          slice |-> [s EXCEPT !.len = s.len + 1]]
    ELSE LET newCap == IF s.len = 0 THEN 1 ELSE 2 * s.len
             arr == [k \in 1..newCap |-> IF k <= s.len THEN heap[s.arr][k]
                                         ELSE IF k = s.len + 1 THEN e ELSE ZeroEntry]
         IN [heap |-> Append(heap, arr),
             slice |-> [arr |-> Len(heap) + 1, len |-> s.len + 1]]

\* shallowClone leaving the entries behind
shallowCloneNoEntries(v) ==
    [Version |-> v.Version, Header |-> v.Header, Hmac |-> v.Hmac,
     CertChain |-> v.CertChain, Entries |-> [arr |-> 0, len |-> 0]]

\* lines 162-177
shallowClone(v) ==
    [Version |-> v.Version, Header |-> v.Header, Hmac |-> v.Hmac,
     CertChain |-> v.CertChain, Entries |-> v.Entries]

\* lines 192-199; BadKey stands for the error of Public()
OwnerPublicKey(h, entries) ==
    IF Len(entries) = 0 THEN h.ManufacturerKey ELSE entries[Len(entries)].PublicKey

Curve(key) == IF key = P256Key THEN "P-256" ELSE "P-384"

ErrKeyType == "owner key for voucher extension did not match the type and size/curve of the manufacturer key"

\* lines 478-493 always hashing the header and its HMAC
PreviousOfHeader(h, mac, entries) == HeaderAndHmac(h, mac)

\* lines 478-493: what the previous hash of the new entry is computed on
PreviousOf(h, mac, entries) ==
    IF Len(entries) = 0 THEN HeaderAndHmac(h, mac) ELSE entries[Len(entries)]

\* ExtendVoucher(vo.vs[in], owner, nextOwner, nil); signOK tells whether the
\* signing of the entry succeeds
ExtendVoucher ==
    /\ pc = "call" /\ vo.op = "ExtendVoucher" /\ Len(vo.calls) < MaxExtends
    /\ \E in \in 1..Len(vo.vs), owner \in VoucherKeys \cup {P256Key},
          nextOwner \in {"k2", "k3"}, signOK \in BOOLEAN :
         LET v == vo.vs[in]
             xv == shallowClone(v)
             h == v.Header
             entries == EntriesOf(vo.heap, v.Entries)
             err == IF h.ManufacturerKey = BadKey THEN "error parsing manufacturer key from header"
                    ELSE IF Curve(h.ManufacturerKey) # Curve(owner) THEN ErrKeyType
                    ELSE IF ~signOK THEN "error signing voucher entry payload"
                    ELSE NoErr
             entry == VoucherEntry(
                          Hash(Sha384Hash, Sum(Sha384Hash, PreviousOf(h, v.Hmac, entries))),
                          Hash(Sha384Hash, Sum(Sha384Hash, HeaderInfo(h))),
                          nextOwner, owner)
             ap == appendEntry(vo.heap, xv.Entries, entry)
             c == [in |-> in, owner |-> owner, nextOwner |-> nextOwner, err |-> err]
         IN IF err # NoErr
            THEN vo' = [vo EXCEPT !.calls = Append(@, c @@ [ret |-> 0, entries |-> <<>>])]
            ELSE vo' = [vo EXCEPT
                           !.heap = ap.heap,
                           !.vs = Append(@, [xv EXCEPT !.Entries = ap.slice]),
                           !.calls = Append(@, c @@ [ret |-> Len(vo.vs) + 1,
                                                     entries |-> entries \o <<entry>>])]
    /\ UNCHANGED <<runVars, pc, jitterIn, jitterOut, mv, tr, call>>

\* A voucher VerifyEntries is given holds entries of every kind; in a voucher
\* that is about to be extended each entry names k2 and is signed by the owner
\* before it, or carries a forged signature, and the array of the entries has
\* room for spare more.
InitVoucher ==
    /\ \E mfg \in {"k1", BadKey} :
       LET h == VoucherHeader(mfg)
           made(kinds) == MakeEntries(h, mfg, HeaderAndHmac(h, VoucherHmac), kinds)
       IN
       \/ \E kinds \in UNION {[1..n -> EntryKinds] : n \in 0..MaxEntries} :
            vo = [op |-> "VerifyEntries", at |-> "call", ret |-> NotReturned,
                  v |-> [Header |-> h, Hmac |-> VoucherHmac, Entries |-> made(kinds)]]
       \/ \E kinds \in UNION {[1..n -> {kd \in EntryKinds :
                                          /\ kd.hh = Sha384Hash /\ kd.ph = Sha384Hash
                                          /\ kd.pub = "k2"}] : n \in 0..MaxEntries},
             spare \in 0..1 :
            vo = [op |-> "ExtendVoucher",
                  heap |-> IF Len(kinds) + spare = 0 THEN <<>>
                           ELSE <<made(kinds) \o [k \in 1..spare |-> ZeroEntry]>>,
                  vs |-> <<[Version |-> 101, Header |-> h, Hmac |-> VoucherHmac,
                            CertChain |-> "chain0",
                            Entries |-> [arr |-> IF Len(kinds) + spare = 0 THEN 0 ELSE 1,
                                         len |-> Len(kinds)]]>>,
                  calls |-> <<>>]
    /\ pc = "call"
    /\ NoRun
    /\ jitterIn = 0 /\ jitterOut = 0 /\ mv = Idle /\ tr = Idle /\ call = Idle

SpecVoucher == InitVoucher /\ [][CallVerifyEntries \/ ExtendVoucher]_vars

TypeOK ==
    /\ pc \in {"RunE", "doOnboard", "transferOwnership", "directive", "to1", "to1call",
               "to2", "to2call", "retryWait", "directiveWait", "returned",
               "updateCred", "saveCred", "encode", "rename", "done", "addJitter",
               "PreRunE", "exited", "Send", "moveFile", "call"}
    /\ cancelled \in BOOLEAN
    /\ writes \in 0..1
    /\ reads \in 0..2
    /\ blobKind \in {"file", "symlink"}
    /\ resale \in BOOLEAN
    /\ dns \subseteq RvNames
    /\ healed \in 0..Len(rvInfo)
    /\ handles \subseteq {"tpmc", "h256", "h384", "key"}
    /\ defers \subseteq {"tpmc", "h256", "h384", "key"}
    /\ mv.op \in {"none", "moveFile"}
    /\ tr.op \in {"none", "Send"}
    /\ call.op \in {"none", "initializeFSIMs", "NameToPath", "Open", "getOwnerURLs"}
    /\ vo.op \in {"none", "VerifyEntries", "ExtendVoucher"}

(***************************************************************************)
(* Properties                                                              *)
(***************************************************************************)
Returned ==
    /\ pc \in {"returned", "updateCred", "saveCred", "encode", "rename", "done"}
    /\ result # NoResult

IsTO2(e) == e.kind = "TO2"
IsTO1(e) == e.kind = "TO1"
IsDirectiveWait(e) == e.kind \in {"wait-directive", "wait-default"}
IsWait(e) == e.kind = "wait-retry" \/ IsDirectiveWait(e)

\* C1: as soon as a TO2 attempt returns a non-nil credential, transferOwnership
\* has returned exactly that credential with a nil error, and that attempt is
\* the last thing the orchestrator did: no TO1 attempt, TO2 attempt or delay
\* wait follows it.
C1_SuccessReturnsAtOnce ==
    \A k \in 1..Len(log) :
        (IsTO2(log[k]) /\ log[k].res \in NewCreds)
        => /\ k = Len(log)
           /\ Returned
           /\ result = [cred |-> log[k].res, err |-> NoErr]

\* a TO2 attempt succeeded after an earlier owner URL of the directive failed
C1_Witness ==
    /\ Returned
    /\ Len(log) >= 3
    /\ IsTO2(Last(log)) /\ Last(log).res \in NewCreds
    /\ \E k \in 1..(Len(log) - 1) : IsTO2(log[k]) /\ log[k].res = ErrTO2

\* C2: in one run the store is written at most once and updateCred is called
\* at most once, only after a TO2 attempt returned a non-nil replacement
\* credential (the one that is written); otherwise the store holds the
\* credential that was loaded.
C2_StoreWrittenOnlyAfterTO2 ==
    /\ writes <= 1
    /\ updCalls <= 1
    /\ writes <= updCalls
    /\ (updCalls > 0 \/ pc = "updateCred")
       => /\ log # <<>>
          /\ IsTO2(Last(log))
          /\ Last(log).res \in NewCreds
          /\ result.cred = Last(log).res
    /\ writes = 0 => store.DeviceCredential = LoadedCred
    /\ writes = 1 => store.DeviceCredential = Last(log).res
    /\ store.HmacSecret = "secret0"

\* the run ended with the replacement credential in the store
C2_Witness ==
    /\ pc = "done"
    /\ writes = 1
    /\ store.DeviceCredential \in NewCreds
    /\ runErr = NoErr

AttemptStarts == pc' \in {"to1call", "to2call"} /\ pc' # pc

\* C3: once the context is cancelled the orchestrator starts no further TO1 or
\* TO2 attempt.
C3_NoAttemptAfterCancel == [][cancelled => ~AttemptStarts]_vars

Waiting == pc \in {"retryWait", "directiveWait"}

\* C4: a wait during which the context is cancelled ends with transferOwnership
\* returning (nil, ctx.Err()) in its next step, no owner URL or directive being
\* tried in between; and the orchestrator returns the context error only in
\* this way, with a nil credential.
C4_WaitsAreCancellable ==
    /\ [][(Waiting /\ cancelled)
          => /\ pc' = "returned"
             /\ result' = [cred |-> NilCred, err |-> ErrCanceled]
             /\ log' = SetLastRes(log, "canceled")]_vars
    /\ [](Returned /\ result.err = ErrCanceled
          => /\ result.cred = NilCred
             /\ cancelled
             /\ log # <<>> /\ IsWait(Last(log)) /\ Last(log).res = "canceled")
    /\ [](Returned /\ result.err # ErrCanceled
          => \A k \in 1..Len(log) : log[k].res # "canceled")

\* the inter-URL wait was cut short by a cancellation while another owner URL
\* and another directive were still to be tried
C4_Witness ==
    /\ Returned
    /\ result = [cred |-> NilCred, err |-> ErrCanceled]
    /\ Last(log).kind = "wait-retry"
    /\ Last(log).res = "canceled"
    /\ Last(log).idx < Len(ownerURLs)
    /\ Len(directives) = 2 /\ i = 1

\* C5: transferOwnership returns (a) a credential and a nil error after a
\* successful TO2, (b) the no-rendezvous-information error before any attempt,
\* or (c) the context error after a cancelled wait, and in no other way; a
\* failed TO1 or TO2 attempt never makes it return.
C5_ThreeWaysToReturn ==
    /\ [](Returned
          => \/ /\ result.cred \in NewCreds /\ result.err = NoErr
                /\ log # <<>> /\ IsTO2(Last(log)) /\ Last(log).res = result.cred
             \/ /\ result = [cred |-> NilCred, err |-> ErrNoRvInfo]
                /\ Len(directives) = 0 /\ log = <<>>
             \/ /\ result = [cred |-> NilCred, err |-> ErrCanceled]
                /\ cancelled
                /\ log # <<>> /\ IsWait(Last(log)) /\ Last(log).res = "canceled")
    /\ [][pc = "to1call" => pc' # "returned"]_vars
    /\ [][(pc = "to2call" /\ pc' = "returned") => result'.cred \in NewCreds]_vars

\* the second directive is at its second TO2 attempt after a failed TO1 and a
\* failed TO2 attempt, the first directive having ended without success
C5_Witness ==
    /\ pc = "to2call"
    /\ i = 2
    /\ \E k \in 1..Len(log) : IsTO1(log[k]) /\ log[k].res = "fail"
    /\ \E k \in 1..Len(log) : IsTO2(log[k]) /\ log[k].res = ErrTO2
    /\ Last(log).idx = 2

\* C6: when a TO2 attempt returns (nil, nil), the credential-reuse outcome,
\* the orchestrator stops there and the run ends in success without a call of
\* updateCred.
C6_ReuseEndsRun ==
    \A k \in 1..Len(log) :
        (IsTO2(log[k]) /\ log[k].res = "reuse")
        => /\ k = Len(log)
           /\ Returned
           /\ result = [cred |-> NilCred, err |-> NoErr]
           /\ updCalls = 0
           /\ (pc = "done" => runErr = NoErr)

Phase(e) ==
    CASE e.kind = "directive" -> 0
      [] e.kind = "TO1" -> 1
      [] e.kind \in {"TO2", "wait-retry"} -> 2
      [] IsDirectiveWait(e) -> 3

LogDirective == directives[log[1].idx]
TO2Count(k) == Cardinality({m \in 1..k : IsTO2(log[m])})

\* the events of one directive: TO1 attempts on the directive's URLs in listed
\* order, then TO2 attempts on the owner URLs in listed order, then the wait;
\* an event begins only when the one before it has ended
LogOrdered ==
    log # <<>> =>
    /\ log[1].kind = "directive"
    /\ \A k \in 2..Len(log) : log[k].kind # "directive"
    /\ \A k \in 1..(Len(log) - 1) :
          /\ log[k].res # "pending"
          /\ Phase(log[k]) <= Phase(log[k + 1])
    /\ \A k \in 1..Len(log) :
          /\ IsTO1(log[k])
             => /\ log[k].idx = k - 1
                /\ log[k].idx <= Len(LogDirective.URLs)
                /\ log[k].url = URLString(LogDirective.URLs[log[k].idx])
          /\ IsTO2(log[k])
             => /\ log[k].idx = TO2Count(k)
                /\ log[k].idx <= Len(ownerURLs)
                /\ log[k].url = ownerURLs[log[k].idx]

\* the step begins the processing of a directive
StartsDirective == log' # <<>> /\ (log = <<>> \/ Len(log') < Len(log) \/ log'[1] # log[1]
                                   \/ (pc = "directive" /\ <<pc, i, log>>' # <<pc, i, log>>))

\* C7: directives are processed in list order, cyclically; within a directive
\* the TO1 attempts follow the rendezvous URLs in order, all of them end before
\* the first TO2 attempt, the TO2 attempts follow the owner URLs in order; a
\* directive begins only when the attempts and the wait of the one before it
\* have ended.
C7_StrictOrder ==
    /\ []LogOrdered
    /\ [][StartsDirective
          => /\ log'[1].kind = "directive"
             /\ log'[1].idx = (IF log = <<>> THEN 1
                               ELSE IF log[1].idx = Len(directives) THEN 1
                               ELSE log[1].idx + 1)
             /\ log # <<>> => Last(log).res \notin {"pending", "canceled"}]_vars
    /\ [][~StartsDirective => (log = <<>> \/ log'[1] = log[1])]_vars

\* the second directive is at its second TO2 attempt, after two TO1 attempts
C7_Witness ==
    /\ Len(directives) = 2
    /\ Len(log) = 5
    /\ log[1].idx = 2
    /\ IsTO1(log[2]) /\ IsTO1(log[3]) /\ IsTO2(log[4]) /\ IsTO2(log[5])

\* C8: for a directive without bypass no TO1 attempt follows a successful one,
\* and every TO2 attempt goes to the owner URL, at the attempt's position, of
\* the list expanded from the statement of the successful TO1 attempt, which
\* is not one of the directive's rendezvous URLs.
C8_TO1StopsAtFirstSuccess ==
    (log # <<>> /\ ~LogDirective.Bypass) =>
    /\ \A k \in 1..Len(log) : \A l \in (k + 1)..Len(log) :
          (IsTO1(log[k]) /\ IsTO1(log[l])) => log[k].res = "fail"
    /\ \A k \in 1..Len(log) :
          IsTO2(log[k])
          => \E m \in 1..(k - 1) :
                /\ IsTO1(log[m]) /\ log[m].res = "ok"
                /\ log[k].to1d = log[m].to1d
                /\ log[k].idx <= Len(ExpandTo2Addrs(log[m].to1d.RV))
                /\ log[k].url = ExpandTo2Addrs(log[m].to1d.RV)[log[k].idx]
                /\ \A u \in 1..Len(LogDirective.URLs) :
                      log[k].url # URLString(LogDirective.URLs[u])

\* TO1 failed on the first URL and succeeded on the second; the TO2 attempt
\* goes to the address of the statement
C8_Witness ==
    /\ Len(log) = 4
    /\ IsTO1(log[2]) /\ log[2].res = "fail"
    /\ IsTO1(log[3]) /\ log[3].res = "ok"
    /\ IsTO2(log[4]) /\ log[4].url = "http://owner.example:80"

\* C9: for a directive with the bypass flag no TO1 attempt is made, the owner
\* URLs are the directive's URLs in the same order and there is no statement:
\* every TO2 attempt goes to the directive's URL at the attempt's position and
\* carries a nil to1d.
C9_BypassSkipsTO1 ==
    (log # <<>> /\ LogDirective.Bypass) =>
    /\ \A k \in 1..Len(log) : ~IsTO1(log[k])
    /\ ownerURLs = [k \in 1..Len(LogDirective.URLs) |-> URLString(LogDirective.URLs[k])]
    /\ to1d = NilTo1d
    /\ \A k \in 1..Len(log) :
          IsTO2(log[k])
          => /\ log[k].to1d = NilTo1d
             /\ log[k].idx <= Len(LogDirective.URLs)
             /\ log[k].url = URLString(LogDirective.URLs[log[k].idx])

\* a bypass directive is at the TO2 attempt on its second URL
C9_Witness ==
    /\ log # <<>> /\ LogDirective.Bypass
    /\ Len(log) = 3
    /\ IsTO2(log[2]) /\ log[2].url = "http://rv1.example:8041"
    /\ IsTO2(log[3]) /\ log[3].url = "https://rv2.example"

DirectiveWaits == {k \in 1..Len(log) : IsDirectiveWait(log[k])}
JitteredDelays(d) == {addJitter(d, k) : k \in JitterChoices}

\* the attempts of the directive of the log are over
DirectiveExhausted ==
    \/ pc \in {"directive", "directiveWait"}
    \/ Returned /\ IsDirectiveWait(Last(log))

\* C10: when the attempts of a directive are over without success, the
\* orchestrator waits addJitter(delay) if the directive's delay is not zero,
\* addJitter(120 s) if it is zero and the directive is the last one, and does
\* not wait otherwise; before that point it makes no such wait.
C10_DirectiveDelayRule ==
    log # <<>> =>
    IF DirectiveExhausted
    THEN IF LogDirective.Delay > 0
         THEN /\ DirectiveWaits = {Len(log)}
              /\ Last(log).kind = "wait-directive"
              /\ Last(log).dur \in JitteredDelays(LogDirective.Delay)
         ELSE IF log[1].idx = Len(directives)
         THEN /\ DirectiveWaits = {Len(log)}
              /\ Last(log).kind = "wait-default"
              /\ Last(log).dur \in JitteredDelays(DefaultDelay)
         ELSE DirectiveWaits = {}
    ELSE DirectiveWaits = {}

\* the last directive has no URL and no delay: the default wait is under way
\* right after the directive began
C10_Witness ==
    /\ pc = "directiveWait"
    /\ Len(log) = 2
    /\ log[1].idx = 2 /\ Len(directives) = 2
    /\ LogDirective.URLs = <<>> /\ LogDirective.Delay = 0
    /\ Last(log).kind = "wait-default"
    /\ Last(log).dur = 90

\* C11: for every non-negative delay d, addJitter(d) returns a value r with
\* 0.75*d <= r <= 1.25*d; addJitter(0) = 0 and the result is never negative.
C11_JitterBound ==
    [][pc = "addJitter"
       => /\ 3 * jitterIn <= 4 * jitterOut'
          /\ 4 * jitterOut' <= 5 * jitterIn
          /\ jitterOut' >= 0
          /\ (jitterIn = 0 => jitterOut' = 0)]_vars

\* the jitter of -1.75 on a delay of 7 was truncated toward zero to -1
C11_Witness == pc = "addJitter" /\ jitterIn = 7 /\ jitterOut = 6

TO2Failed(e) == IsTO2(e) /\ e.res \notin NewCreds \cup {"pending"}

C13_NoDirectivesIsTerminal ==
    directives = <<>>
    => /\ pc \in {"RunE", "doOnboard", "transferOwnership", "returned", "done"}
       /\ log = <<>>
       /\ updCalls = 0
       /\ result \in {NoResult, [cred |-> NilCred, err |-> ErrNoRvInfo]}
       /\ pc = "returned" => result = [cred |-> NilCred, err |-> ErrNoRvInfo]
       /\ (pc = "done" /\ result # NoResult) => runErr = ErrNoRvInfo

\* the run ended with the error of the empty directive list
C13_Witness ==
    /\ directives = <<>>
    /\ pc = "done"
    /\ result = [cred |-> NilCred, err |-> ErrNoRvInfo]
    /\ runErr = ErrNoRvInfo

\* TO1 was tried against every URL of the non-bypass directive of the log and
\* failed every time (or the directive has no URL)
TO1Exhausted ==
    /\ log # <<>>
    /\ ~LogDirective.Bypass
    /\ Cardinality({k \in 1..Len(log) : IsTO1(log[k]) /\ log[k].res = "fail"})
         = Len(LogDirective.URLs)

\* C14: if TO1 fails against every URL of a non-bypass directive (or the
\* directive has no URL), getOwnerURLs returns no owner URLs and no statement
\* and no error; the orchestrator makes no TO2 attempt for that directive,
\* applies the delay rule of the directive, and moves on to the next directive.
C14_FailedTO1MovesOn ==
    TO1Exhausted
    => LET idx == log[1].idx
           n == Len(LogDirective.URLs)
           kind == DelayKind(LogDirective, idx = Len(directives))
       IN /\ ownerURLs = <<>>
          /\ to1d = NilTo1d
          /\ \A k \in 1..Len(log) : ~IsTO2(log[k]) /\ log[k].kind # "wait-retry"
          /\ IF kind = "none"
             THEN /\ Len(log) = n + 1
                  /\ pc = "directive"
                  /\ i = NextDirective(idx)
                  /\ result = NoResult
             ELSE /\ Len(log) = n + 2
                  /\ Last(log).kind = kind
                  /\ Last(log).dur \in JitteredDelays(DelayBase(LogDirective, kind))
                  /\ CASE Last(log).res = "pending" ->
                             pc = "directiveWait" /\ i = idx /\ result = NoResult
                       [] Last(log).res = "elapsed" ->
                             pc = "directive" /\ i = NextDirective(idx)
                             /\ result = NoResult
                       [] OTHER ->
                             Returned /\ result = [cred |-> NilCred, err |-> ErrCanceled]

\* TO1 failed against both URLs of the first of two directives, the wait of
\* the directive elapsed and the second directive is next
C14_Witness ==
    /\ TO1Exhausted
    /\ Len(directives) = 2
    /\ log[1].idx = 1
    /\ Len(LogDirective.URLs) = 2
    /\ Last(log).res = "elapsed"
    /\ pc = "directive" /\ i = 2

\* a load of the credential path decodes a complete record
Complete(rec) ==
    /\ rec.DeviceCredential \in {LoadedCred} \cup NewCreds
    /\ rec.HmacSecret = "secret0"
    /\ rec.PrivateKey = "key0"
    /\ rec.State \in DeviceStates

InSaveCred == pc \in {"saveCred", "encode", "rename"}

\* C15: saving the credential is atomic with respect to the credential path:
\* at every point of saveCred before its rename succeeded (an encode failure,
\* a failed rename and an interruption included) the credential path holds
\* the previous credential complete and unchanged, and after the rename it
\* holds the new credential complete.
C15_SaveIsAtomic ==
    [][/\ Complete(store')
       /\ InSaveCred
          => IF pc = "rename" /\ runErr' = NoErr
             THEN store' = NewRecord /\ store'.DeviceCredential = result.cred
             ELSE store' = store]_vars

\* Encode failed: the temporary file holds a part of the encoding, the
\* credential path the credential that was loaded
C15_Witness ==
    /\ pc = "done"
    /\ runErr = ErrUpdateCred
    /\ tmp = Partial
    /\ store = StoredRecord(LoadedCred, FDO_STATE_PRE_TO1)

\* C16: a save whose destination path is a symbolic link fails with an error
\* and changes nothing: the link is neither followed nor replaced, the file
\* it points to keeps its content, and the source file still exists.
C16_SymlinkDestinationRefused ==
    [][(pc = "rename" /\ pc' # pc /\ blobKind = "symlink")
       => /\ runErr' # NoErr
          /\ blobKind' = "symlink"
          /\ target' = target
          /\ store' = store
          /\ tmp' = tmp]_vars

InUpdateCred == pc = "updateCred" \/ InSaveCred

\* C17: if TO2 succeeded with a replacement credential but writing it to the
\* store fails, the run returns the error of updateCred and never reports
\* success; the orchestration is not started again.
C17_UpdateCredErrorReturned ==
    [][InUpdateCred
       => /\ pc' \in {pc, "saveCred", "encode", "rename", "done"}
          /\ pc' = "done"
             => /\ writes' = 0 => runErr' = ErrUpdateCred
                /\ runErr' = NoErr => writes' = 1]_vars

\* the rename of saveCred failed after TO2 returned a replacement credential
C17_Witness ==
    /\ pc = "done"
    /\ result.cred \in NewCreds
    /\ tmp.DeviceCredential = result.cred
    /\ writes = 0
    /\ runErr = ErrUpdateCred

C19_IdentityImmutable ==
    /\ GUID(store.DeviceCredential) = GUID(LoadedCred)
    /\ store.PrivateKey = "key0"

\* C19 amended: after any sequence of onboard runs the private key in the
\* store is the one created at initialization; the GUID in the store changes
\* only when a run that obtained a replacement credential from TO2 writes it,
\* and is then the GUID of that credential, so that failed, cancelled and
\* credential-reuse runs leave it unchanged.
C19_KeyKeptGUIDReplaced ==
    /\ [](store.PrivateKey = "key0")
    /\ [][GUID(store'.DeviceCredential) # GUID(store.DeviceCredential)
          => /\ pc = "rename"
             /\ runErr' = NoErr
             /\ result.cred \in NewCreds
             /\ GUID(store'.DeviceCredential) = GUID(result.cred)]_vars

\* an earlier run replaced the credential and its GUID; a resale run is
\* about to replace them once more
C19_Witness ==
    /\ pc = "rename"
    /\ deviceStatus = FDO_STATE_IDLE
    /\ GUID(store.DeviceCredential) = "guid1"
    /\ result.cred = "dc2"
    /\ store.PrivateKey = "key0"

\* C20: the onboard command never moves the lifecycle marker backwards: the
\* only marker it writes is IDLE, together with the replacement credential
\* after a successful transfer; a failed, cancelled or credential-reuse run
\* leaves the marker as loaded, and onboarding starts from IDLE only when
\* resale was requested.
C20_MarkerOnlyAdvances ==
    /\ []((deviceStatus # NilStr /\ writes = 0) => store.State = deviceStatus)
    /\ [][store' # store
          => /\ pc = "rename"
             /\ runErr' = NoErr
             /\ result.cred \in NewCreds
             /\ store'.DeviceCredential = result.cred
             /\ store'.State = FDO_STATE_IDLE
             /\ store.State \in {FDO_STATE_PRE_TO1, FDO_STATE_IDLE}]_vars
    /\ [][(pc = "RunE" /\ pc' = "doOnboard" /\ store.State = FDO_STATE_IDLE)
          => resale]_vars

\* a run that loaded PRE_TO1 wrote IDLE with the replacement credential
C20_Witness ==
    /\ pc = "done"
    /\ deviceStatus = FDO_STATE_PRE_TO1
    /\ store.State = FDO_STATE_IDLE
    /\ store.DeviceCredential = result.cred
    /\ writes = 1

\* C21: the directive list is derived afresh from the credential's rendezvous
\* instructions on every orchestration pass: every step that enters a pass
\* (the first directive becomes the current one) leaves the list equal to what
\* the instructions parse to with the names that resolve at that moment, so a
\* name that did not resolve in one pass is considered again in the next.
C21_DerivedAfreshEveryPass ==
    [][(pc # "directive" /\ pc' = "directive" /\ i' = 1)
       => directives' = ParseDeviceRvInfo(rvInfo, dns)]_vars

\* C22, first half: while the run is neither cancelled nor over, every
\* directive of the list becomes the current one again and again.
NeverGivesUp ==
    \A d \in 1..MaxDirectives :
        \/ <>(cancelled \/ pc = "done")
        \/ []<>(Len(rvInfo) < d \/ (pc = "directive" /\ i = d))

\* C22: while the run is neither cancelled nor successful, transferOwnership
\* never gives up and never skips a directive; consequently, with the steps
\* of the run taken for as long as one is possible, if the run is never
\* cancelled and from some moment on the TO1 and TO2 attempts made for some
\* directive succeed, the orchestrator eventually returns the credential.
C22_RetriesUntilCredential ==
    /\ NeverGivesUp
    /\ ([]~cancelled /\ <>(healed # 0) /\ <>(pc = "directive"))
       => <>(Returned /\ result.cred # NilCred)

C24_MoveFileMoves ==
    (mv.op = "moveFile" /\ mv.ret = NoErr)
    => /\ mv.src = Absent
       /\ mv.dst.kind = "file"
       /\ mv.dst.content = mv.src0.content
       /\ mv.dst.perm = mv.src0.perm

\* an empty file with mode 0644 was moved across file systems onto an
\* existing file
C24_Witness ==
    /\ mv.op = "moveFile" /\ mv.ret = NoErr
    /\ mv.xdev
    /\ mv.src0 = Node("file", <<>>, 420)
    /\ mv.dst0.kind = "file" /\ mv.dst0 # mv.src0
    /\ mv.dst = mv.src0

\* C25: during copyAndRemove the destination holds what it held before the
\* call (or nothing) or the complete copy of src, never a partial file; the
\* source is removed only after the destination is complete; when the
\* function fails before the final rename the temporary file is removed and
\* src is left in place.
C25_CopyIsAtomic ==
    (mv.op = "moveFile" /\ mv.xdev)
    => /\ mv.dst \in {mv.dst0, mv.src0}
       /\ mv.src \in {mv.src0, Absent}
       /\ (mv.src # mv.src0) => (mv.dst = mv.src0)
       /\ (mv.ret = ErrMove /\ mv.at = "returned" /\ mv.dst # mv.src0)
          => (mv.tmpf = Absent /\ mv.src = mv.src0)

\* copyAndRemove failed after it had written the first block of a file of
\* two blocks to the temporary file
C25_Witness ==
    /\ mv.op = "moveFile" /\ mv.xdev
    /\ mv.ret = ErrMove
    /\ Len(mv.src0.content) = 2 /\ mv.copied = 1
    /\ mv.dst0.kind = "file" /\ mv.dst = mv.dst0 /\ mv.dst0 # mv.src0
    /\ mv.tmpf = Absent
    /\ mv.src = mv.src0

NotOutside(p, dir) ==
    /\ p.abs = dir.abs
    /\ Len(p.parts) >= Len(dir.parts)
    /\ SubSeq(p.parts, 1, Len(dir.parts)) = dir.parts
    /\ \A k \in 1..Len(p.parts) : p.parts[k] # ".."

\* C27: with a download (or wget) directory configured, NameToPath returns,
\* for every name the owner supplies, the configured directory joined with
\* the base name only, a path that lies inside the configured directory and
\* never outside it.
C27_NameToPathStaysInside ==
    (call.op = "NameToPath" /\ call.at = "returned")
    => /\ call.ret = Join(call.dir, Base(Clean(call.name)))
       /\ NotOutside(call.ret, call.dir)

\* C28: WorkingDirFS.Open resolves a relative name against DefaultDir and
\* rejects with a permission error, opening nothing, every relative name
\* whose resolution lies outside DefaultDir; an absolute name is opened
\* unchanged; a name that resolves to a directory or to a nonexistent file
\* yields an error and no open file.
C28_OpenStaysInside ==
    (call.op = "Open" /\ call.at = "returned")
    => /\ (~call.name.abs /\ call.opened # NoPath)
          => call.opened = Join(call.dir, call.name)
       /\ (~call.name.abs /\ ~NotOutside(Join(call.dir, call.name), call.dir))
          => (call.ret = ErrPermission /\ call.opened = NoPath)
       /\ call.name.abs => call.opened = call.name
       /\ Clean(IF call.name.abs THEN call.name ELSE Join(call.dir, call.name))
             \notin {Path(TRUE, <<"a", "b">>), Path(TRUE, <<"b">>)}
          => (call.ret # NoErr /\ (call.opened # NoPath => (call.file = NoPath)))
       /\ (call.opened # NoPath /\ Stat(Clean(call.opened)) = "dir") => call.closed
       /\ call.ret = NoErr => call.file = Clean(call.opened)

\* the relative name ../b, which names a regular file outside the default
\* directory /a, was refused
C28_Witness ==
    /\ call.op = "Open" /\ call.at = "returned"
    /\ call.dir = Path(TRUE, <<"a">>)
    /\ call.name = Path(FALSE, <<"..", "b">>)
    /\ call.ret = ErrPermission
    /\ call.opened = NoPath

\* the configuration is invalid in one of the ways the claim lists
InvalidConfig ==
    \/ config.Cipher \notin validCipherSuites
    \/ config.Kex \notin validKexSuites
    \/ config.Key \notin validKeys
    \/ config.DefaultWorkingDir \notin (AbsPaths \cap ExistingPaths \cap WritableDirs)
    \/ config.Download \notin ({""} \cup ExistingPaths)
    \/ config.WgetDir \notin ({""} \cup ExistingPaths)
    \/ config.MaxServiceInfoSize \notin 0..65535

\* C29: if the onboard configuration is invalid, the command returns an
\* error before anything else happens: RunE is not entered, no TPM is opened,
\* no credential is read, no TO1 or TO2 attempt is made, nothing is retried.
C29_InvalidConfigStopsCommand ==
    InvalidConfig
    => /\ pc \in {"PreRunE", "done", "exited"}
       /\ pc # "PreRunE" => runErr \notin {NoErr, NotReturned}
       /\ handles = {} /\ reads = 0 /\ log = <<>>
       /\ updCalls = 0 /\ writes = 0
       /\ result = NoResult /\ deviceStatus = NilStr

\* the command has returned the error of an unknown key exchange suite given
\* with a TPM and otherwise valid flags
C29_Witness ==
    /\ pc = "exited"
    /\ config = [ValidConfig EXCEPT !.Kex = "bogus", !.TPM = "/dev/tpmrm0"]
    /\ runErr = "invalid key exchange suite"
    /\ handles = {} /\ reads = 0

\* C30: every TPM handle acquired by a run, the connection opened at run
\* start and the HMAC and key handles obtained while reading the credential,
\* is released on every exit path of the run: success, any error (an error
\* while acquiring a later handle included) and cancellation.
C30_HandlesReleased ==
    pc = "exited" => handles = {}

\* the URLs the statement's address a is expected to contribute
Contributes(a) ==
    LET https == a.TransportProtocol = HTTPSTransport
        port == IF a.Port # 0 THEN Itoa(a.Port) ELSE IF https THEN "443" ELSE "80"
        url(host) == (IF https THEN "https://" ELSE "http://")
                     \o (IF host = "fd00::2" THEN "[fd00::2]" ELSE host) \o ":" \o port
    IN IF a.TransportProtocol \notin {HTTPTransport, HTTPSTransport} THEN <<>>
       ELSE (IF a.DNSAddress = "owner.example" THEN <<url(a.DNSAddress)>> ELSE <<>>)
            \o (IF a.IPAddress \in {"10.0.0.2", "fd00::2"} THEN <<url(a.IPAddress)>> ELSE <<>>)

\* what the addresses of rv are expected to contribute, in the order of rv
RECURSIVE ExpectedURLs(_)
ExpectedURLs(rv) ==
    IF rv = <<>> THEN <<>> ELSE Contributes(Head(rv)) \o ExpectedURLs(Tail(rv))

\* C31: after a successful TO1 getOwnerURLs returns the statement itself and
\* the concatenation, in the statement's order, of what each address
\* contributes: nothing for an address without name and IP address or with a
\* transport other than HTTP/HTTPS, otherwise the URL of the name (if it
\* resolves) followed by the URL of the IP address (if it is valid), with the
\* address's port when nonzero and 80 (http) or 443 (https) otherwise; a
\* statement contributing nothing gives the empty list with the statement.
C31_StatementExpansion ==
    (call.op = "getOwnerURLs" /\ call.at = "returned")
    => LET rv == call.to1d.RV
       IN /\ call.ret.to1d = call.to1d /\ ~call.ret.to1d.IsNil
          /\ call.ret.ownerURLs = ExpectedURLs(rv)
          /\ \A k \in 1..Len(rv) :
                (rv[k].DNSAddress = NilStr /\ rv[k].IPAddress = NilStr)
                => Contributes(rv[k]) = <<>>

\* a statement of two addresses: the first has a name that does not resolve
\* and a valid IPv6 address, the second has both and its own port
C31_Witness ==
    /\ call.op = "getOwnerURLs" /\ call.at = "returned"
    /\ Len(call.to1d.RV) = 2
    /\ call.to1d.RV[1].DNSAddress = "gone.example"
    /\ call.ret.ownerURLs = <<"https://[fd00::2]:443", "https://owner.example:8043",
                               "https://10.0.0.2:8043">>

\* C32: the command makes TO1/TO2 attempts only when the loaded status is
\* PRE_TO1, or IDLE with a resale request; having loaded IDLE without a resale
\* request it returns nil with no attempt made and no credential written, and
\* having loaded PRE_DI or any other status it returns an error with no
\* attempt made.
C32_OnboardsOnlyWhenDue ==
    LET due == \/ deviceStatus = FDO_STATE_PRE_TO1
               \/ (deviceStatus = FDO_STATE_IDLE /\ resale)
        attempted == log # <<>> \/ pc \in {"to1", "to1call", "to2", "to2call"}
    IN /\ attempted => due
       /\ (deviceStatus # NilStr /\ ~due)
          => /\ pc = "done" /\ ~attempted
             /\ writes = 0 /\ updCalls = 0
             /\ IF deviceStatus = FDO_STATE_IDLE THEN runErr = NoErr
                ELSE runErr \notin {NoErr, NotReturned}
             /\ deviceStatus = FDO_STATE_PRE_DI => runErr = ErrNotInitialized

\* a run that found the marker IDLE and had no resale request ended in success
\* with the store as it was
C32_Witness ==
    /\ pc = "done" /\ deviceStatus = FDO_STATE_IDLE /\ ~resale
    /\ runErr = NoErr /\ log = <<>> /\ writes = 0
    /\ store = StoredRecord(LoadedCred, FDO_STATE_IDLE)

\* the entry chain of a voucher is intact: every entry is signed by the key
\* named before it, carries the hash of GUID||DeviceInfo of the header and the
\* hash of what precedes it
Intact(v) ==
    \A k \in 1..Len(v.Entries) :
        LET e == v.Entries[k]
            prevKey == IF k = 1 THEN v.Header.ManufacturerKey ELSE v.Entries[k - 1].PublicKey
            prev == IF k = 1 THEN HeaderAndHmac(v.Header, v.Hmac) ELSE v.Entries[k - 1]
        IN /\ prevKey # BadKey /\ e.sig = prevKey
           /\ \E alg \in {Sha256Hash, Sha384Hash} :
                 e.HeaderHash = Hash(alg, Sum(alg, HeaderInfo(v.Header)))
           /\ \E alg \in {Sha256Hash, Sha384Hash} :
                 e.PreviousHash = Hash(alg, Sum(alg, prev))

\* C34: Voucher.VerifyEntries succeeds exactly when the entry chain is intact
\* (every entry signed by the key named in the entry before it, or by the
\* manufacturer key for the first; its header hash the hash of
\* GUID||DeviceInfo; its previous hash the hash of the entry before it, or of
\* header plus HMAC for the first); in particular a voucher without entries
\* verifies.
C34_VerifiesExactlyIntactChains ==
    (vo.op = "VerifyEntries" /\ vo.at = "returned")
    => ((vo.ret = NoErr) <=> Intact(vo.v))

\* a step of ExtendVoucher, and the call it made
Extends == vo.op = "ExtendVoucher" /\ Len(vo'.calls) = Len(vo.calls) + 1
NewCall == vo'.calls[Len(vo'.calls)]

\* C33: ExtendVoucher leaves its input voucher as it was (version, header,
\* HMAC, certificate chain, and the same entries in the same number); a
\* successful call returns a new voucher whose entries are those of the input
\* followed by exactly one new entry, and a failed call returns no voucher.
C33_ExtendLeavesInputUnchanged ==
    [][Extends =>
         LET c == NewCall
             v == vo.vs[c.in]
             before == EntriesOf(vo.heap, v.Entries)
         IN /\ vo'.vs[c.in] = v
            /\ EntriesOf(vo'.heap, v.Entries) = before
            /\ IF c.err = NoErr
               THEN /\ c.ret = Len(vo.vs) + 1
                    /\ Len(vo'.vs) = Len(vo.vs) + 1
                    /\ LET after == EntriesOf(vo'.heap, vo'.vs[c.ret].Entries)
                       IN /\ Len(after) = Len(before) + 1
                          /\ SubSeq(after, 1, Len(before)) = before
                          /\ after[Len(after)].PublicKey = c.nextOwner
               ELSE c.ret = 0 /\ vo'.vs = vo.vs /\ vo'.heap = vo.heap]_vars

\* a voucher of two entries was extended once with success and once without
C33_Witness ==
    /\ vo.op = "ExtendVoucher" /\ Len(vo.calls) = 2
    /\ vo.vs[1].Entries.len = 2
    /\ vo.calls[1].err = NoErr /\ vo.calls[1].in = 1
    /\ vo.calls[2].err = ErrKeyType /\ vo.calls[2].in = 1
    /\ Len(EntriesOf(vo.heap, vo.vs[2].Entries)) = 3

\* C37: every voucher ExtendVoucher returned still holds the entries it was
\* returned with (those of its input followed by the new entry), whatever
\* extensions of the same input were made afterwards and whatever the length
\* and the capacity of the input's entry list.
C37_ExtensionsIndependent ==
    vo.op = "ExtendVoucher"
    => \A k \in 1..Len(vo.calls) :
          vo.calls[k].err = NoErr
          => EntriesOf(vo.heap, vo.vs[vo.calls[k].ret].Entries) = vo.calls[k].entries

\* C38: if VerifyEntries succeeds on v and ExtendVoucher(v, owner, n) returns
\* x, then with owner the key v.OwnerPublicKey() names VerifyEntries succeeds
\* on x and x.OwnerPublicKey() is n, and with any other owner of the right
\* type VerifyEntries fails on x.
C38_ExtensionPreservesVerifiability ==
    [][(Extends /\ NewCall.err = NoErr) =>
         LET c == NewCall
             v == vo.vs[c.in]
             x == vo'.vs[c.ret]
             before == EntriesOf(vo.heap, v.Entries)
             after == EntriesOf(vo'.heap, x.Entries)
         IN /\ (VerifyEntries(v.Header, v.Hmac, before) = NoErr
                /\ c.owner = OwnerPublicKey(v.Header, before))
               => /\ VerifyEntries(x.Header, x.Hmac, after) = NoErr
                  /\ OwnerPublicKey(x.Header, after) = c.nextOwner
            /\ c.owner # OwnerPublicKey(v.Header, before)
               => VerifyEntries(x.Header, x.Hmac, after) # NoErr]_vars

\* a verified voucher of one entry was extended by its owner k2 to k3, and the
\* result by k3; it was also extended by k1, who does not own it
C38_Witness ==
    /\ vo.op = "ExtendVoucher" /\ Len(vo.calls) = 2
    /\ vo.vs[1].Entries.len = 1
    /\ VerifyEntries(vo.vs[1].Header, vo.vs[1].Hmac, EntriesOf(vo.heap, vo.vs[1].Entries)) = NoErr
    /\ vo.calls[1].err = NoErr /\ vo.calls[1].in = 1 /\ vo.calls[1].owner = "k2"
    /\ vo.calls[2].err = NoErr /\ vo.calls[2].in = 1 /\ vo.calls[2].owner = "k1"
    /\ vo.vs[1].Entries.arr # vo.vs[2].Entries.arr
    /\ VerifyEntries(vo.vs[2].Header, vo.vs[2].Hmac, EntriesOf(vo.heap, vo.vs[2].Entries)) = NoErr
    /\ VerifyEntries(vo.vs[3].Header, vo.vs[3].Hmac, EntriesOf(vo.heap, vo.vs[3].Entries)) # NoErr

\* C35: every TO2 attempt carries the statement of the first successful TO1
\* attempt made for the same directive in the same pass, and nil for a bypass
\* directive; the statement held from an earlier directive or pass is dropped
\* when a directive begins, and a statement is taken only from a TO1 attempt
\* that has just returned it.
C35_StatementOfSameDirective ==
    /\ [][(pc = "to2" /\ pc' = "to2call") =>
            LET ev == log'[Len(log')]
            IN /\ IsTO2(ev) /\ log[1].idx = i
               /\ IF directives[i].Bypass THEN ev.to1d = NilTo1d
                  ELSE \E m \in 1..Len(log) :
                         /\ IsTO1(log[m]) /\ log[m].res = "ok"
                         /\ ~log[m].to1d.IsNil /\ ev.to1d = log[m].to1d
                         /\ \A n \in 1..(m - 1) : IsTO1(log[n]) => log[n].res = "fail"]_vars
    /\ [][(pc = "directive" /\ (log' # log \/ i' # i))
          => (to1d' = NilTo1d \/ pc' = "returned")]_vars
    /\ [][(to1d' # to1d /\ to1d' # NilTo1d)
          => /\ pc = "to1call"
             /\ log'[Len(log)].res = "ok" /\ log'[Len(log)].to1d = to1d']_vars

\* the first directive obtained a statement and its TO2 attempt failed; the
\* second directive, a bypass directive, is at its TO2 attempt without one
C35_Witness ==
    /\ pc = "to2call" /\ i = 2
    /\ Len(directives) = 2 /\ ~directives[1].Bypass /\ Len(directives[1].URLs) = 2
    /\ directives[2].Bypass
    /\ log[Len(log)].to1d = NilTo1d /\ to1d = NilTo1d

\* C36: with every TO1 and TO2 attempt returning and every timer firing, a run
\* whose context is cancelled eventually returns; unless a TO2 attempt yields a
\* credential it returns the context's error, and it does so at the latest at
\* the wait after the last directive of the pass, because the orchestrator
\* leaves the last directive of a pass only through a wait, which ends in the
\* context's error once the context is cancelled.
C36_CancelledRunReturns ==
    /\ (cancelled /\ pc \notin {"RunE", "doOnboard", "done"}) ~> Returned
    /\ [][(cancelled /\ ~Returned /\ Returned')
          => (result'.cred # NilCred \/ result'.err = ErrCanceled)]_vars
    /\ [][(pc \in {"directive", "to1", "to1call", "to2", "to2call", "retryWait",
                   "directiveWait"}
           /\ i = Len(directives) /\ pc' = "directive" /\ (pc # "directive" \/ i' # i))
          => (pc = "directiveWait" /\ ~cancelled /\ i' = 1)]_vars
    /\ [][(cancelled /\ pc \in {"retryWait", "directiveWait"} /\ pc' # pc)
          => (Returned' /\ result' = [cred |-> NilCred, err |-> ErrCanceled])]_vars

\* the context was cancelled while the only directive, which has no delay of
\* its own, was being tried; its TO1 attempts were still made and failed, and
\* the default wait ended the run with the context's error
C36_Witness ==
    /\ pc = "returned" /\ cancelled
    /\ result = [cred |-> NilCred, err |-> ErrCanceled]
    /\ Len(directives) = 1 /\ i = 1
    /\ Len(log) = 4
    /\ IsTO1(log[2]) /\ IsTO1(log[3]) /\ log[3].res = "fail"
    /\ log[4].kind = "wait-default" /\ log[4].res = "canceled"

\* a run of a protocol begins with the first message of the protocol:
\* TO1.HelloRV (30), TO2.HelloDevice (60)
BeginsRun(msgType) == msgType \in {30, 60}

\* C39: in a Send that reaches the Responder, the Responder is given the token
\* of the previous response if and only if the message type is not lower than
\* the previous one and of the same protocol, and the empty token otherwise;
\* afterwards the stored token is the one the Responder returned and the
\* stored previous message type is the one sent; so the first message of a
\* protocol run never carries the token of the run before.
C39_TokenFollowsSession ==
    [][tr'.calls = tr.calls + 1 =>
         /\ IF tr'.msgType >= tr.prevMsg /\ ProtocolOf(tr'.msgType) = ProtocolOf(tr.prevMsg)
            THEN tr'.given = tr.token
            ELSE tr'.given = ""
         /\ tr'.token = tr'.newToken
         /\ tr'.prevMsg = tr'.msgType
         /\ BeginsRun(tr'.msgType) => tr'.given = ""]_vars

\* a failed read of the stored record ends updateCred with its error and with
\* nothing written, and saveCred is entered only after the read succeeded; the
\* credential path changes only inside saveCred, and so does the temporary
\* file while a run lasts
ReadFailureWritesNothing ==
    /\ [][(pc = "updateCred" /\ pc' = "done")
          => /\ store' = store /\ tmp' = tmp /\ writes' = writes
             /\ runErr' = ErrUpdateCred]_vars
    /\ [][(pc # "saveCred" /\ pc' = "saveCred") => (pc = "updateCred" /\ reads' = reads + 1)]_vars
    /\ [][(store' # store \/ (pc # "done" /\ (tmp' # tmp \/ writes' # writes)))
          => pc \in {"saveCred", "encode", "rename"}]_vars

====
